---- MODULE Spec2Model ----
(***************************************************************************)
(* A model of the import pipeline of apple-health-mcp-server: the content  *)
(* identity (models.rs), the primary document parser (import/xml.rs), the  *)
(* route reference resolver and run_import (import/mod.rs), the auxiliary  *)
(* parsers (import/ecg.rs, import/gpx.rs) and the load and convergence     *)
(* stage (db.rs).                                                          *)
(*                                                                         *)
(* Strings of the program are sequences of tokens: the characters the code *)
(* scans for are tokens of their own, so that the byte-level operations of  *)
(* the code (concatenation with a separator, rfind, slicing) are computed   *)
(* and not assumed.  Option values are None and Some(x).                    *)
(***************************************************************************)
EXTENDS Integers, Sequences, FiniteSets, TLC

VARIABLES
    db,      \* the sink: one sequence of rows per table, in append order
    clock,   \* wall clock, in whole seconds (chrono::Utc::now)
    export,  \* the export bundle on disk: export.xml and the two directories
    run,     \* run_import: its position and its locals
    px,      \* import_xml: the event loop's locals and the document it reads
    fn,      \* inputs and results of the pure functions
    hist     \* history of completed operations (not program state)

vars == <<db, clock, export, run, px, fn, hist>>

None == <<>>
Some(x) == <<x>>

\* A function that is not running.
Idle == [pc |-> "idle"]

\* All sequences over S of length at most n.
RECURSIVE SeqsUpTo(_, _)
SeqsUpTo(S, n) ==
    IF n = 0 THEN {<<>>}
    ELSE LET shorter == SeqsUpTo(S, n - 1)
         IN shorter \cup {Append(s, x) : s \in shorter, x \in S}

\* ------------------------------------------------------------------------
\* Bounds of the model
\* ------------------------------------------------------------------------
MaxFields == 2
MaxStrLen == 1

\* ------------------------------------------------------------------------
\* models.rs: compute_hash
\* ------------------------------------------------------------------------
\* SHA-256 followed by hex::encode, taken as collision-free: the digest is
\* represented by the byte sequence that was fed to the hasher.
Sha256Hex(bytes) == <<"sha256", bytes>>

\* A variant of the loop without hasher.update(b"|"): the parts are fed one
\* after the other.
RECURSIVE HashInput_NoSeparator(_)
HashInput_NoSeparator(parts) ==
    IF parts = <<>> THEN <<>>
    ELSE Head(parts) \o HashInput_NoSeparator(Tail(parts))

\* The bytes the loop of compute_hash feeds to the hasher: for each part,
\* hasher.update(part.as_bytes()); hasher.update(b"|").
RECURSIVE HashInput(_)
HashInput(parts) ==
    IF parts = <<>> THEN <<>>
    ELSE Head(parts) \o <<"|">> \o HashInput(Tail(parts))

compute_hash(parts) == Sha256Hex(HashInput(parts))

\* ------------------------------------------------------------------------
\* import/xml.rs: helpers
\* ------------------------------------------------------------------------
\* A structural event of quick_xml's reader: kind is "Start", "Empty", "End",
\* "Other" (text, declaration, doctype, comment) or "Err"; attrs maps the
\* names of the attributes that are present and well-formed to their values.
NoAttrs == [n \in {} |-> <<>>]
Ev(kind, name, attrs) == [kind |-> kind, name |-> name, attrs |-> attrs]

attr_value(e, name) ==
    IF name \in DOMAIN e.attrs THEN Some(e.attrs[name]) ELSE None

unwrap_or_default(v) == IF v = None THEN <<>> ELSE v[1]

Digits == [c \in {"0", "1", "2", "3", "4", "5", "6", "7", "8", "9"} |->
             CASE c = "0" -> 0 [] c = "1" -> 1 [] c = "2" -> 2 [] c = "3" -> 3
               [] c = "4" -> 4 [] c = "5" -> 5 [] c = "6" -> 6 [] c = "7" -> 7
               [] c = "8" -> 8 [] c = "9" -> 9]

RECURSIVE DecimalValue(_)
DecimalValue(s) ==
    IF s = <<>> THEN 0
    ELSE 10 * DecimalValue(SubSeq(s, 1, Len(s) - 1)) + Digits[s[Len(s)]]

IsDigits(s) == s # <<>> /\ \A i \in 1..Len(s) : s[i] \in DOMAIN Digits

RECURSIVE StripLeadingZeros(_)
StripLeadingZeros(s) ==
    IF Len(s) > 1 /\ Head(s) = "0" THEN StripLeadingZeros(Tail(s)) ELSE s

RECURSIVE StripTrailingZeros(_)
StripTrailingZeros(s) ==
    IF s # <<>> /\ s[Len(s)] = "0"
    THEN StripTrailingZeros(SubSeq(s, 1, Len(s) - 1)) ELSE s

\* The first position of character c in s, 0 when absent.
IndexOf(s, c) ==
    LET hits == {i \in 1..Len(s) : s[i] = c}
    IN IF hits = {} THEN 0 ELSE CHOOSE i \in hits : \A j \in hits : i <= j

\* An f64 is represented by its shortest decimal expansion, the string that
\* f64::to_string prints: no leading zeros, no trailing zeros in the
\* fraction, no "." before an empty fraction.
F64(neg, int, frac) ==
    (IF neg THEN <<"-">> ELSE <<>>)
    \o StripLeadingZeros(int)
    \o (IF StripTrailingZeros(frac) = <<>> THEN <<>>
        ELSE <<".">> \o StripTrailingZeros(frac))

\* str::parse::<f64> on the literals of the model: an optional "-", digits,
\* and an optional "." with digits; anything else does not parse.
ParseF64(s) ==
    LET neg == s # <<>> /\ s[1] = "-"
        body == IF neg THEN Tail(s) ELSE s
        dot == IndexOf(body, ".")
        int == IF dot = 0 THEN body ELSE SubSeq(body, 1, dot - 1)
        frac == IF dot = 0 THEN <<>> ELSE SubSeq(body, dot + 1, Len(body))
    IN IF IsDigits(int) /\ (frac = <<>> \/ IsDigits(frac))
       THEN Some(F64(neg, int, frac))
       ELSE None

\* f64::to_string
F64ToString(v) == v

\* The number an f64 without a fraction stands for.
F64Value(v) ==
    IF v[1] = "-" THEN 0 - DecimalValue(Tail(v)) ELSE DecimalValue(v)

parse_opt_f64(s) == IF s = None THEN None ELSE ParseF64(s[1])

\* str::rfind: the start of the last occurrence of pat in s, 0 when absent.
RFind(s, pat) ==
    LET hits == {i \in 1..Len(s) :
                    i + Len(pat) - 1 <= Len(s)
                    /\ SubSeq(s, i, i + Len(pat) - 1) = pat}
    IN IF hits = {} THEN 0 ELSE CHOOSE i \in hits : \A j \in hits : j <= i

clean_date(s) ==
    IF RFind(s, <<" ", "+">>) # 0
    THEN SubSeq(s, 1, RFind(s, <<" ", "+">>) - 1)
    ELSE IF RFind(s, <<" ", "-">>) # 0
    THEN SubSeq(s, 1, RFind(s, <<" ", "-">>) - 1)
    ELSE s

clean_date_opt(s) == IF s = None THEN None ELSE Some(clean_date(s[1]))

\* ------------------------------------------------------------------------
\* db.rs: the sink
\* ------------------------------------------------------------------------
Tables == {"records", "record_metadata", "workouts", "workout_events",
           "workout_statistics", "activity_summaries", "ecg_readings",
           "ecg_samples", "route_points", "imports", "daily_record_stats"}

\* open_db on a new file followed by ensure_schema: every table empty
\* (daily_record_stats is created by rebuild_daily_stats).
EmptyDb == [t \in Tables |-> <<>>]

\* ------------------------------------------------------------------------
\* import/xml.rs: import_xml
\* ------------------------------------------------------------------------
\* BATCH_SIZE is 100_000 in the code; the model scales it down.
BATCH_SIZE == 2

ImportStatsDefault ==
    [records |-> 0, workouts |-> 0, activity_summaries |-> 0,
     correlations |-> 0, ecg_readings |-> 0, route_points |-> 0,
     metadata_entries |-> 0, workout_events |-> 0, workout_statistics |-> 0]

\* The locals of import_xml before the loop.  fail_at is the environment's
\* choice of the sink call that returns an error (0: none does).
XmlLocals(doc, import_id, fail_at) ==
    [pc |-> "loop", doc |-> doc, pos |-> 1, import_id |-> import_id,
     fail_at |-> fail_at, flushes |-> 0,
     stats |-> ImportStatsDefault,
     record_batch |-> <<>>, metadata_batch |-> <<>>, workout_batch |-> <<>>,
     workout_event_batch |-> <<>>, workout_stat_batch |-> <<>>,
     activity_batch |-> <<>>,
     in_workout |-> FALSE, current_workout |-> None,
     current_workout_events |-> <<>>, current_workout_stats |-> <<>>,
     current_workout_route_file |-> None,
     in_record |-> FALSE, current_record_hash |-> None,
     in_correlation |-> FALSE]

\* A step of the program works on st = [p |-> locals, db |-> sink].  A
\* value that is used more than once is bound by a quantifier over a
\* one-element set (x \in {e}), so that it is computed once.
\* The ? operator: once a call has returned Err nothing after it runs.
Failed(st) == st.p.pc = "failed"

\* The rows of a batch, last first.
RECURSIVE Reversed(_)
Reversed(rows) ==
    IF rows = <<>> THEN <<>> ELSE Append(Reversed(Tail(rows)), Head(rows))

\* A variant that appends the rows of the batch last first.
FlushBatch_Reversed(st, batch, table) ==
    IF st.p[batch] = <<>> THEN st
    ELSE IF st.p.fail_at = st.p.flushes + 1
    THEN [st EXCEPT !.p.pc = "failed"]
    ELSE [st EXCEPT !.db[table] = @ \o Reversed(st.p[batch]),
                    !.p[batch] = <<>>,
                    !.p.flushes = @ + 1]

\* A variant that writes the batch in place of the table.
FlushBatch_Replace(st, batch, table) ==
    IF st.p[batch] = <<>> THEN st
    ELSE IF st.p.fail_at = st.p.flushes + 1
    THEN [st EXCEPT !.p.pc = "failed"]
    ELSE [st EXCEPT !.db[table] = st.p[batch],
                    !.p[batch] = <<>>,
                    !.p.flushes = @ + 1]

\* A variant that leaves out the rows of the batch the table holds already,
\* the import-run id aside.
FlushBatch_SkipKnown(st, batch, table) ==
    LET Content(r) == [c \in DOMAIN r \ {"import_id"} |-> r[c]]
        Unknown(r) ==
            \A i \in 1..Len(st.db[table]) :
                Content(st.db[table][i]) # Content(r)
    IN IF st.p[batch] = <<>> THEN st
       ELSE IF st.p.fail_at = st.p.flushes + 1
       THEN [st EXCEPT !.p.pc = "failed"]
       ELSE [st EXCEPT !.db[table] = @ \o SelectSeq(st.p[batch], Unknown),
                       !.p[batch] = <<>>,
                       !.p.flushes = @ + 1]

\* flush_*: nothing for an empty batch; otherwise the rows are appended to
\* the table in batch order and the batch is cleared, or the appender
\* returns an error and import_xml returns it.
FlushBatch(st, batch, table) ==
    IF st.p[batch] = <<>> THEN st
    ELSE IF st.p.fail_at = st.p.flushes + 1
    THEN [st EXCEPT !.p.pc = "failed"]
    ELSE [st EXCEPT !.db[table] = @ \o st.p[batch],
                    !.p[batch] = <<>>,
                    !.p.flushes = @ + 1]

flush_records(st) == FlushBatch(st, "record_batch", "records")
flush_metadata(st) == FlushBatch(st, "metadata_batch", "record_metadata")
flush_workouts(st) == FlushBatch(st, "workout_batch", "workouts")
flush_workout_events(st) ==
    FlushBatch(st, "workout_event_batch", "workout_events")
flush_workout_stats(st) ==
    FlushBatch(st, "workout_stat_batch", "workout_statistics")
flush_activities(st) == FlushBatch(st, "activity_batch", "activity_summaries")

FlushIfFull(st, batch, table) ==
    IF Len(st.p[batch]) >= BATCH_SIZE THEN FlushBatch(st, batch, table) ELSE st

\* The identity import_xml gives a Record element.
XmlRecordHash(e) ==
    compute_hash(<<unwrap_or_default(attr_value(e, "type")),
                   unwrap_or_default(attr_value(e, "sourceName")),
                   clean_date(unwrap_or_default(attr_value(e, "startDate"))),
                   clean_date(unwrap_or_default(attr_value(e, "endDate"))),
                   unwrap_or_default(attr_value(e, "value")),
                   unwrap_or_default(attr_value(e, "unit"))>>)

\* b"Record" if !in_correlation
OnRecord(st, e) ==
    LET record_type == unwrap_or_default(attr_value(e, "type"))
        source_name == unwrap_or_default(attr_value(e, "sourceName"))
        start_date == clean_date(unwrap_or_default(attr_value(e, "startDate")))
        end_date == clean_date(unwrap_or_default(attr_value(e, "endDate")))
        value_str == attr_value(e, "value")
        unit == attr_value(e, "unit")
        hash == XmlRecordHash(e)
        row == [record_hash |-> hash,
                record_type |-> record_type,
                value |-> parse_opt_f64(value_str),
                unit |-> unit,
                source_name |-> source_name,
                source_version |-> attr_value(e, "sourceVersion"),
                device |-> attr_value(e, "device"),
                creation_date |-> clean_date_opt(attr_value(e, "creationDate")),
                start_date |-> start_date,
                end_date |-> end_date,
                import_id |-> st.p.import_id]
    IN FlushIfFull([st EXCEPT !.p.record_batch = Append(@, row),
                              !.p.stats.records = @ + 1,
                              !.p.in_record = TRUE,
                              !.p.current_record_hash = Some(hash)],
                   "record_batch", "records")

\* b"MetadataEntry"
OnMetadataEntry(st, e) ==
    LET key == unwrap_or_default(attr_value(e, "key"))
        value == unwrap_or_default(attr_value(e, "value"))
    IN IF st.p.in_workout THEN st
       ELSE IF st.p.in_record /\ st.p.current_record_hash # None
       THEN FlushIfFull(
                [st EXCEPT !.p.metadata_batch =
                               Append(@, [record_hash |-> st.p.current_record_hash[1],
                                          key |-> key, value |-> value]),
                           !.p.stats.metadata_entries = @ + 1],
                "metadata_batch", "record_metadata")
       ELSE st

\* The identity import_xml gives a Workout element.
XmlWorkoutHash(e) ==
    compute_hash(<<unwrap_or_default(attr_value(e, "workoutActivityType")),
                   unwrap_or_default(attr_value(e, "sourceName")),
                   clean_date(unwrap_or_default(attr_value(e, "startDate"))),
                   clean_date(unwrap_or_default(attr_value(e, "endDate"))),
                   unwrap_or_default(attr_value(e, "duration"))>>)

\* b"Workout"
OnWorkout(st, e) ==
    LET row == [workout_hash |-> XmlWorkoutHash(e),
                activity_type |->
                    unwrap_or_default(attr_value(e, "workoutActivityType")),
                duration |-> parse_opt_f64(attr_value(e, "duration")),
                duration_unit |-> attr_value(e, "durationUnit"),
                total_distance |-> parse_opt_f64(attr_value(e, "totalDistance")),
                total_distance_unit |-> attr_value(e, "totalDistanceUnit"),
                total_energy_burned |->
                    parse_opt_f64(attr_value(e, "totalEnergyBurned")),
                total_energy_unit |-> attr_value(e, "totalEnergyBurnedUnit"),
                source_name |-> unwrap_or_default(attr_value(e, "sourceName")),
                source_version |-> attr_value(e, "sourceVersion"),
                device |-> attr_value(e, "device"),
                creation_date |-> clean_date_opt(attr_value(e, "creationDate")),
                start_date |->
                    clean_date(unwrap_or_default(attr_value(e, "startDate"))),
                end_date |->
                    clean_date(unwrap_or_default(attr_value(e, "endDate"))),
                import_id |-> st.p.import_id]
    IN [st EXCEPT !.p.in_workout = TRUE,
                  !.p.current_workout = Some(row),
                  !.p.current_workout_events = <<>>,
                  !.p.current_workout_stats = <<>>,
                  !.p.current_workout_route_file = None]

\* A variant that commits the event row as soon as it is parsed.
OnWorkoutEvent_Eager(st, e) ==
    IF st.p.current_workout = None THEN st
    ELSE [st EXCEPT !.p.workout_event_batch =
            Append(@, [workout_hash |-> st.p.current_workout[1].workout_hash,
                       event_type |-> unwrap_or_default(attr_value(e, "type")),
                       date |-> clean_date_opt(attr_value(e, "date")),
                       duration |-> parse_opt_f64(attr_value(e, "duration")),
                       duration_unit |-> attr_value(e, "durationUnit")]),
                  !.p.stats.workout_events = @ + 1]

\* b"WorkoutEvent" if in_workout
OnWorkoutEvent(st, e) ==
    IF st.p.current_workout = None THEN st
    ELSE [st EXCEPT !.p.current_workout_events =
            Append(@, [workout_hash |-> st.p.current_workout[1].workout_hash,
                       event_type |-> unwrap_or_default(attr_value(e, "type")),
                       date |-> clean_date_opt(attr_value(e, "date")),
                       duration |-> parse_opt_f64(attr_value(e, "duration")),
                       duration_unit |-> attr_value(e, "durationUnit")])]

\* b"WorkoutStatistics" if in_workout
OnWorkoutStatistics(st, e) ==
    IF st.p.current_workout = None THEN st
    ELSE [st EXCEPT !.p.current_workout_stats =
            Append(@, [workout_hash |-> st.p.current_workout[1].workout_hash,
                       stat_type |-> unwrap_or_default(attr_value(e, "type")),
                       start_date |-> clean_date_opt(attr_value(e, "startDate")),
                       end_date |-> clean_date_opt(attr_value(e, "endDate")),
                       average |-> parse_opt_f64(attr_value(e, "average")),
                       minimum |-> parse_opt_f64(attr_value(e, "minimum")),
                       maximum |-> parse_opt_f64(attr_value(e, "maximum")),
                       sum |-> parse_opt_f64(attr_value(e, "sum")),
                       unit |-> attr_value(e, "unit")])]

\* b"FileReference" if in_workout
OnFileReference(st, e) ==
    [st EXCEPT !.p.current_workout_route_file = attr_value(e, "path")]

\* b"ActivitySummary"
OnActivitySummary(st, e) ==
    LET row ==
          [date_components |-> unwrap_or_default(attr_value(e, "dateComponents")),
           active_energy_burned |->
               parse_opt_f64(attr_value(e, "activeEnergyBurned")),
           active_energy_burned_goal |->
               parse_opt_f64(attr_value(e, "activeEnergyBurnedGoal")),
           apple_move_time |-> parse_opt_f64(attr_value(e, "appleMoveTime")),
           apple_move_time_goal |->
               parse_opt_f64(attr_value(e, "appleMoveTimeGoal")),
           apple_exercise_time |->
               parse_opt_f64(attr_value(e, "appleExerciseTime")),
           apple_exercise_time_goal |->
               parse_opt_f64(attr_value(e, "appleExerciseTimeGoal")),
           apple_stand_hours |-> parse_opt_f64(attr_value(e, "appleStandHours")),
           apple_stand_hours_goal |->
               parse_opt_f64(attr_value(e, "appleStandHoursGoal")),
           import_id |-> st.p.import_id]
    IN FlushIfFull([st EXCEPT !.p.activity_batch = Append(@, row),
                              !.p.stats.activity_summaries = @ + 1],
                   "activity_batch", "activity_summaries")

\* b"Correlation"
OnCorrelation(st) ==
    [st EXCEPT !.p.in_correlation = TRUE, !.p.stats.correlations = @ + 1]

\* Ok(Event::Start(ref e)) | Ok(Event::Empty(ref e))
OnStartOrEmpty(st, e) ==
    CASE e.name = "Record" /\ ~st.p.in_correlation -> OnRecord(st, e)
      [] e.name = "MetadataEntry" -> OnMetadataEntry(st, e)
      [] e.name = "Workout" -> OnWorkout(st, e)
      [] e.name = "WorkoutEvent" /\ st.p.in_workout -> OnWorkoutEvent(st, e)
      [] e.name = "WorkoutStatistics" /\ st.p.in_workout ->
             OnWorkoutStatistics(st, e)
      [] e.name = "FileReference" /\ st.p.in_workout -> OnFileReference(st, e)
      [] e.name = "ActivitySummary" -> OnActivitySummary(st, e)
      [] e.name = "Correlation" -> OnCorrelation(st)
      [] OTHER -> st

\* End of b"Workout": the pending rows are drained into the committed
\* batches, then the three batches are checked against the threshold.
OnWorkoutEnd(st) ==
    LET p == st.p
        drained ==
          [st EXCEPT
             !.p.current_workout = None,
             !.p.workout_batch = Append(@, p.current_workout[1]),
             !.p.stats.workouts = @ + 1,
             !.p.workout_event_batch = @ \o p.current_workout_events,
             !.p.stats.workout_events = @ + Len(p.current_workout_events),
             !.p.current_workout_events = <<>>,
             !.p.workout_stat_batch = @ \o p.current_workout_stats,
             !.p.stats.workout_statistics = @ + Len(p.current_workout_stats),
             !.p.current_workout_stats = <<>>]
    IN IF p.current_workout = None THEN [st EXCEPT !.p.in_workout = FALSE]
       ELSE CHOOSE closed \in
              {IF Failed(f3) THEN f3 ELSE [f3 EXCEPT !.p.in_workout = FALSE] :
                 f3 \in
                   {IF Failed(f2) THEN f2
                    ELSE FlushIfFull(f2, "workout_stat_batch",
                                     "workout_statistics") :
                      f2 \in
                        {IF Failed(f1) THEN f1
                         ELSE FlushIfFull(f1, "workout_event_batch",
                                          "workout_events") :
                           f1 \in {FlushIfFull(drained, "workout_batch",
                                               "workouts")}}}} : TRUE

\* Ok(Event::End(ref e))
OnEnd(st, e) ==
    CASE e.name = "Record" ->
             [st EXCEPT !.p.in_record = FALSE, !.p.current_record_hash = None]
      [] e.name = "Workout" -> OnWorkoutEnd(st)
      [] e.name = "Correlation" -> [st EXCEPT !.p.in_correlation = FALSE]
      [] OTHER -> st

\* A variant of the loop body that does not get past a reader error: the
\* next call of read_event_into returns the same error.
XmlLoopBody_StuckOnErr(st) ==
    LET e == st.p.doc[st.p.pos]
        handled == CASE e.kind \in {"Start", "Empty"} -> OnStartOrEmpty(st, e)
                     [] e.kind = "End" -> OnEnd(st, e)
                     [] OTHER -> st
    IN IF Failed(handled) \/ e.kind = "Err" THEN handled
       ELSE [handled EXCEPT !.p.pos = @ + 1]

\* One iteration of the loop on an event other than Eof, buf.clear()
\* included.  Ok(_) and Err(e) leave the locals alone.
XmlLoopBody(st) ==
    LET e == st.p.doc[st.p.pos]
        handled == CASE e.kind \in {"Start", "Empty"} -> OnStartOrEmpty(st, e)
                     [] e.kind = "End" -> OnEnd(st, e)
                     [] OTHER -> st
    IN IF Failed(handled) THEN handled
       ELSE [handled EXCEPT !.p.pos = @ + 1]

\* The end of input without the final flushes of the batches other than
\* record_batch.
XmlAtEof_RecordsOnly(st) ==
    CHOOSE r \in
      {IF Failed(f1) THEN f1 ELSE [f1 EXCEPT !.p.pc = "done"] :
         f1 \in {flush_records(st)}} : TRUE

\* Ok(Event::Eof) => break, then the six flushes and Ok(stats).
XmlAtEof(st) ==
    CHOOSE r \in
      {IF Failed(f6) THEN f6 ELSE [f6 EXCEPT !.p.pc = "done"] :
         f6 \in
           {IF Failed(f5) THEN f5 ELSE flush_activities(f5) :
              f5 \in
                {IF Failed(f4) THEN f4 ELSE flush_workout_stats(f4) :
                   f4 \in
                     {IF Failed(f3) THEN f3 ELSE flush_workout_events(f3) :
                        f3 \in
                          {IF Failed(f2) THEN f2 ELSE flush_workouts(f2) :
                             f2 \in
                               {IF Failed(f1) THEN f1 ELSE flush_metadata(f1) :
                                  f1 \in {flush_records(st)}}}}}}} : TRUE

\* At most n iterations of the loop, fewer when a call fails or the input
\* ends.  The iterations are split in halves, the first half computed
\* before the second is begun: this only keeps the evaluation shallow.
RECURSIVE XmlLoop(_, _)
XmlLoop(st, n) ==
    IF n = 0 \/ st.p.pc # "loop" \/ st.p.pos > Len(st.p.doc) THEN st
    ELSE IF n = 1 THEN XmlLoopBody(st)
    ELSE CHOOSE r \in {XmlLoop(mid, n - (n \div 2)) :
                          mid \in {XmlLoop(st, n \div 2)}} : TRUE

XmlRun(st) ==
    CHOOSE r \in {IF Failed(after) THEN after ELSE XmlAtEof(after) :
                     after \in {XmlLoop(st, Len(st.p.doc))}} : TRUE

\* import_xml on a document that can be opened, run to its return:
\* p.pc is "done" for Ok(stats) and "failed" for Err.
import_xml(sink, doc, import_id, fail_at) ==
    XmlRun([p |-> XmlLocals(doc, import_id, fail_at), db |-> sink])

\* A variant that reads a file it cannot open as an empty document.
import_xml_path_Empty(sink, file, import_id, fail_at) ==
    import_xml(sink, IF file = None THEN <<>> ELSE file[1], import_id,
               fail_at)

\* import_xml from its first line: File::open(xml_path).context(..)?
\* returns Err before anything else when the file cannot be opened (file
\* is None), otherwise the document is parsed.
import_xml_path(sink, file, import_id, fail_at) ==
    IF file = None
    THEN [p |-> [XmlLocals(<<>>, import_id, fail_at) EXCEPT !.pc = "failed"],
          db |-> sink]
    ELSE import_xml(sink, file[1], import_id, fail_at)

\* ------------------------------------------------------------------------
\* Documents.  A string is written as a sequence of tokens: the characters
\* the code scans for (" ", "+", "-", "|", ".", digits of numbers) are
\* tokens of their own, other runs of characters are one token.
\* ------------------------------------------------------------------------
Tz == <<" ", "+", "0000">>
Stamp(date, time) == <<date, " ", time>>
Jan1 == "2024-01-01"

\* tests/common/mod.rs MINIMAL_XML, element by element.
RecHeartRate ==
    [type |-> <<"HeartRate">>, sourceName |-> <<"Apple Watch">>,
     unit |-> <<"count/min">>, value |-> <<"7", "2">>,
     startDate |-> Stamp(Jan1, "08:00:00") \o Tz,
     endDate |-> Stamp(Jan1, "08:01:00") \o Tz]
MetaMotion == [key |-> <<"MotionContext">>, value |-> <<"1">>]
RecStepCount ==
    [type |-> <<"StepCount">>, sourceName |-> <<"iPhone">>,
     unit |-> <<"count">>, value |-> <<"1", "5", "0", "0">>,
     startDate |-> Stamp(Jan1, "09:00:00") \o Tz,
     endDate |-> Stamp(Jan1, "09:30:00") \o Tz]
WorkoutRunning ==
    [workoutActivityType |-> <<"Running">>, duration |-> <<"1", "8", "0", "0">>,
     durationUnit |-> <<"sec">>, totalDistance |-> <<"5", "0", "0", "0">>,
     totalDistanceUnit |-> <<"m">>, totalEnergyBurned |-> <<"3", "0", "0">>,
     totalEnergyBurnedUnit |-> <<"kcal">>, sourceName |-> <<"Apple Watch">>,
     startDate |-> Stamp(Jan1, "10:00:00") \o Tz,
     endDate |-> Stamp(Jan1, "10:30:00") \o Tz]
EventLap ==
    [type |-> <<"Lap">>, date |-> Stamp(Jan1, "10:15:00") \o Tz]
StatHeartRate ==
    [type |-> <<"HeartRate">>,
     startDate |-> Stamp(Jan1, "10:00:00") \o Tz,
     endDate |-> Stamp(Jan1, "10:30:00") \o Tz,
     average |-> <<"1", "5", "0">>, minimum |-> <<"1", "2", "0">>,
     maximum |-> <<"1", "8", "0">>, unit |-> <<"count/min">>]
RouteDir == "/workout-routes/"
RouteFile == <<"route_2024-01-01", ".", "gpx">>
FileRefRoute == [path |-> <<RouteDir>> \o RouteFile]
CorrBloodPressure ==
    [type |-> <<"BloodPressure">>, sourceName |-> <<"BP Monitor">>,
     startDate |-> Stamp(Jan1, "12:00:00") \o Tz,
     endDate |-> Stamp(Jan1, "12:00:00") \o Tz]
RecSystolic ==
    [type |-> <<"BloodPressureSystolic">>, sourceName |-> <<"BP Monitor">>,
     unit |-> <<"mmHg">>, value |-> <<"1", "2", "0">>,
     startDate |-> Stamp(Jan1, "12:00:00") \o Tz,
     endDate |-> Stamp(Jan1, "12:00:00") \o Tz]
SummaryJan1 ==
    [dateComponents |-> <<Jan1>>,
     activeEnergyBurned |-> <<"5", "0", "0">>,
     activeEnergyBurnedGoal |-> <<"6", "0", "0">>,
     appleExerciseTime |-> <<"3", "0">>, appleExerciseTimeGoal |-> <<"3", "0">>,
     appleStandHours |-> <<"1", "0">>, appleStandHoursGoal |-> <<"1", "2">>]

ElemRecordWithMeta ==
    <<Ev("Start", "Record", RecHeartRate),
      Ev("Empty", "MetadataEntry", MetaMotion),
      Ev("End", "Record", NoAttrs)>>
ElemRecord == <<Ev("Empty", "Record", RecStepCount)>>

\* A category record: its value is a name, not a number, and it has no
\* unit.
RecSleep ==
    [type |-> <<"SleepAnalysis">>, sourceName |-> <<"Apple Watch">>,
     value |-> <<"Asleep">>,
     startDate |-> Stamp(Jan1, "23:00:00") \o Tz,
     endDate |-> Stamp(Jan1, "23:30:00") \o Tz]
ElemSleep == <<Ev("Empty", "Record", RecSleep)>>
ElemWorkout ==
    <<Ev("Start", "Workout", WorkoutRunning),
      Ev("Empty", "WorkoutEvent", EventLap),
      Ev("Empty", "WorkoutStatistics", StatHeartRate),
      Ev("Start", "WorkoutRoute", [sourceName |-> <<"Apple Watch">>]),
      Ev("Empty", "FileReference", FileRefRoute),
      Ev("End", "WorkoutRoute", NoAttrs),
      Ev("End", "Workout", NoAttrs)>>
ElemCorrelation ==
    <<Ev("Start", "Correlation", CorrBloodPressure),
      Ev("Empty", "Record", RecSystolic),
      Ev("End", "Correlation", NoAttrs)>>
ElemSummary == <<Ev("Empty", "ActivitySummary", SummaryJan1)>>

MINIMAL_XML ==
    <<Ev("Other", "Decl", NoAttrs), Ev("Other", "DocType", NoAttrs),
      Ev("Start", "HealthData", [locale |-> <<"en_US">>])>>
    \o ElemRecordWithMeta \o ElemRecord \o ElemWorkout \o ElemCorrelation
    \o ElemSummary
    \o <<Ev("End", "HealthData", NoAttrs)>>

\* Further elements: a workout with dates that carry no timezone suffix, a
\* workout cut off before its closing tag, and the events one at a time.
WorkoutYoga ==
    [workoutActivityType |-> <<"Yoga">>, duration |-> <<"6", "0">>,
     sourceName |-> <<"iPhone">>,
     startDate |-> Stamp(Jan1, "18:00:00"),
     endDate |-> Stamp(Jan1, "19:00:00")]
ElemWorkoutCutOff ==
    <<Ev("Start", "Workout", WorkoutYoga),
      Ev("Empty", "WorkoutEvent", EventLap),
      Ev("Empty", "WorkoutStatistics", StatHeartRate)>>

\* A workout with two events.
EventPause ==
    [type |-> <<"Pause">>, date |-> Stamp(Jan1, "18:20:00")]
ElemWorkoutTwoEvents ==
    <<Ev("Start", "Workout", WorkoutYoga),
      Ev("Empty", "WorkoutEvent", EventPause),
      Ev("Empty", "WorkoutEvent", EventLap),
      Ev("End", "Workout", NoAttrs)>>

\* A Record element without its startDate and endDate attributes.
RecNoDates ==
    [type |-> <<"HeartRate">>, sourceName |-> <<"Apple Watch">>,
     unit |-> <<"count/min">>, value |-> <<"7", "2">>]

SingleEvents ==
    {Ev("Start", "Record", RecHeartRate), Ev("Empty", "Record", RecStepCount),
     Ev("End", "Record", NoAttrs),
     Ev("Empty", "MetadataEntry", MetaMotion),
     Ev("Start", "Workout", WorkoutYoga), Ev("Empty", "Workout", WorkoutYoga),
     Ev("End", "Workout", NoAttrs),
     Ev("Empty", "WorkoutEvent", EventLap),
     Ev("Empty", "WorkoutStatistics", StatHeartRate),
     Ev("Empty", "FileReference", FileRefRoute),
     Ev("Start", "Correlation", CorrBloodPressure),
     Ev("Empty", "Correlation", CorrBloodPressure),
     Ev("End", "Correlation", NoAttrs),
     Ev("Empty", "ActivitySummary", SummaryJan1),
     Ev("Err", "", NoAttrs), Ev("Empty", "Record", RecNoDates)}

XmlElements ==
    {<<e>> : e \in SingleEvents}
    \cup {ElemRecordWithMeta, ElemWorkout, ElemCorrelation, ElemWorkoutCutOff,
          ElemWorkoutTwoEvents}

RECURSIVE Flatten(_)
Flatten(ss) == IF ss = <<>> THEN <<>> ELSE Head(ss) \o Flatten(Tail(ss))

\* The reader checks end tags against the open elements (check_end_names):
\* an Ok(End) event always closes the innermost open element.  Elements may
\* be left open at the end of input.
RECURSIVE Nested(_, _)
Nested(doc, open) ==
    IF doc = <<>> THEN TRUE
    ELSE LET e == Head(doc)
         IN CASE e.kind = "Start" -> Nested(Tail(doc), Append(open, e.name))
              [] e.kind = "End" ->
                     /\ open # <<>>
                     /\ open[Len(open)] = e.name
                     /\ Nested(Tail(doc), SubSeq(open, 1, Len(open) - 1))
              [] OTHER -> Nested(Tail(doc), open)

\* The documents import_xml is run on in SpecXml: up to MaxElems elements.
MaxElems == 2
XmlDocs ==
    {d \in {Flatten(es) : es \in SeqsUpTo(XmlElements, MaxElems)} :
        Nested(d, <<>>)}

\* The sink calls that may fail in one import_xml: none, the first, ...
MaxFail == 2

\* The import identifier run_import derives from the clock:
\* format!("import_{}", now.format("%Y%m%d_%H%M%S")).
ImportId(now) == <<"import_", now>>

\* ------------------------------------------------------------------------
\* Specification SpecXml: the event loop of import_xml, one event per step
\* ------------------------------------------------------------------------
InitXml ==
    /\ db = EmptyDb /\ clock = 1 /\ export = <<>> /\ run = Idle
    /\ fn = Idle /\ hist = <<>>
    /\ \E doc \in XmlDocs, f \in 0..MaxFail :
          px = XmlLocals(doc, ImportId(clock), f)

XmlStepTo(st) ==
    /\ px' = st.p
    /\ db' = st.db
    /\ UNCHANGED <<clock, export, run, fn, hist>>

\* read_event_into returns an event other than Eof.
XmlEvent ==
    /\ px.pc = "loop"
    /\ px.pos <= Len(px.doc)
    /\ XmlStepTo(XmlLoopBody([p |-> px, db |-> db]))

\* read_event_into returns Eof.
XmlEof ==
    /\ px.pc = "loop"
    /\ px.pos > Len(px.doc)
    /\ XmlStepTo(XmlAtEof([p |-> px, db |-> db]))

\* The index of the End event that closes the Start event at i, 0 when the
\* input ends before it.
RECURSIVE CloseFrom(_, _, _)
CloseFrom(doc, j, depth) ==
    IF j > Len(doc) THEN 0
    ELSE IF doc[j].kind = "Start" THEN CloseFrom(doc, j + 1, depth + 1)
    ELSE IF doc[j].kind = "End"
    THEN IF depth = 1 THEN j ELSE CloseFrom(doc, j + 1, depth - 1)
    ELSE CloseFrom(doc, j + 1, depth)
CloseOf(doc, i) == CloseFrom(doc, i + 1, 1)

\* The rows import_xml has committed so far: in the sink or in a batch.
Committed(p, sink, table, batch) == sink[table] \o p[batch]

IsPrefix(s, t) == Len(s) <= Len(t) /\ SubSeq(t, 1, Len(s)) = s

HashesOf(rows) == {rows[i].workout_hash : i \in 1..Len(rows)}

\* Workout elements with a closing tag in the document, with no other
\* Workout element opened inside them.
ClosedWorkouts(doc) ==
    {i \in 1..Len(doc) :
        /\ doc[i].kind = "Start" /\ doc[i].name = "Workout"
        /\ CloseOf(doc, i) # 0
        /\ \A k \in (i + 1)..(CloseOf(doc, i) - 1) : doc[k].name # "Workout"}
\* Workout elements whose end the input reaches.
ReachedCloseWorkouts(doc) ==
    {i \in 1..Len(doc) :
        /\ doc[i].name = "Workout"
        /\ \/ doc[i].kind = "Empty"
           \/ doc[i].kind = "Start" /\ CloseOf(doc, i) # 0}
ChildrenOf(doc, i, name) ==
    {k \in (i + 1)..(CloseOf(doc, i) - 1) : doc[k].name = name}

C10_CommitOnlyAtClose ==
    LET e == px.doc[px.pos]
        evs == Committed(px, db, "workout_events", "workout_event_batch")
        evs2 == Committed(px', db', "workout_events", "workout_event_batch")
        sts == Committed(px, db, "workout_statistics", "workout_stat_batch")
        sts2 == Committed(px', db', "workout_statistics", "workout_stat_batch")
        wks == Committed(px, db, "workouts", "workout_batch")
        wks2 == Committed(px', db', "workouts", "workout_batch")
        closing == /\ px.pos <= Len(px.doc)
                   /\ e.kind = "End" /\ e.name = "Workout"
                   /\ px.current_workout # None
    IN /\ IsPrefix(evs, evs2) /\ IsPrefix(sts, sts2) /\ IsPrefix(wks, wks2)
       /\ (evs2 # evs \/ sts2 # sts \/ wks2 # wks) => closing
       /\ closing =>
            /\ wks2 = Append(wks, px.current_workout[1])
            /\ evs2 = evs \o px.current_workout_events
            /\ sts2 = sts \o px.current_workout_stats
            /\ HashesOf(px.current_workout_events \o px.current_workout_stats)
                 \subseteq {px.current_workout[1].workout_hash}

C10_UnclosedContributeNothing ==
    px.pc = "done" =>
        LET closed == {XmlWorkoutHash(px.doc[i]) :
                          i \in ReachedCloseWorkouts(px.doc)}
        IN /\ px.workout_batch = <<>> /\ px.workout_event_batch = <<>>
           /\ px.workout_stat_batch = <<>>
           /\ HashesOf(db.workouts) \subseteq closed
           /\ HashesOf(db.workout_events) \subseteq closed
           /\ HashesOf(db.workout_statistics) \subseteq closed
           /\ \A i \in ClosedWorkouts(px.doc) :
                LET h == XmlWorkoutHash(px.doc[i])
                    Tagged(t) == Cardinality({k \in 1..Len(db[t]) :
                                                 db[t][k].workout_hash = h})
                    Closings == Cardinality({j \in ClosedWorkouts(px.doc) :
                                    XmlWorkoutHash(px.doc[j]) = h})
                    Children(n) ==
                        Cardinality({<<j, k>> \in
                            ClosedWorkouts(px.doc) \X (1..Len(px.doc)) :
                               /\ XmlWorkoutHash(px.doc[j]) = h
                               /\ k \in ChildrenOf(px.doc, j, n)})
                IN /\ Tagged("workouts") >= Closings
                   /\ Tagged("workout_events") >= Children("WorkoutEvent")
                   /\ Tagged("workout_statistics")
                          >= Children("WorkoutStatistics")

AtEvent == px.pc = "loop" /\ px.pos <= Len(px.doc)

\* The events before position pos leave an element called name open: one
\* of them is its start tag and its end tag is not among them.
InsideOpen(doc, pos, name) ==
    \E i \in 1..(pos - 1) :
        /\ doc[i].kind = "Start" /\ doc[i].name = name
        /\ CloseOf(doc, i) = 0 \/ CloseOf(doc, i) >= pos

BatchOf ==
    [records |-> "record_batch", record_metadata |-> "metadata_batch",
     workouts |-> "workout_batch", workout_events |-> "workout_event_batch",
     workout_statistics |-> "workout_stat_batch",
     activity_summaries |-> "activity_batch"]

\* The step leaves the committed rows of table t as they were.
NoRowFor(t) ==
    Committed(px', db', t, BatchOf[t]) = Committed(px, db, t, BatchOf[t])

C11_Step ==
    AtEvent =>
        LET e == px.doc[px.pos]
        IN /\ e.name = "Correlation" => \A t \in DOMAIN BatchOf : NoRowFor(t)
           /\ (/\ e.name = "Record" /\ e.kind \in {"Start", "Empty"}
               /\ InsideOpen(px.doc, px.pos, "Correlation"))
              => NoRowFor("records") /\ px'.stats.records = px.stats.records

C11_Suppression ==
    px.pc = "loop" =>
        (px.in_correlation <=> InsideOpen(px.doc, px.pos, "Correlation"))

\* C11: no step on a Correlation event commits a row; a step on a Record
\* that lies inside an open Correlation commits no records row and leaves
\* the records count alone; and the suppression flag is on exactly while
\* the loop is between the open and the close of a Correlation element.
C11_CorrelationSuppression == [][C11_Step]_vars /\ []C11_Suppression

\* The start tag of the innermost element the events before pos leave
\* open, 0 when there is none.
Parent(doc, pos) ==
    LET open == {i \in 1..(pos - 1) :
                    /\ doc[i].kind = "Start"
                    /\ CloseOf(doc, i) = 0 \/ CloseOf(doc, i) >= pos}
    IN IF open = {} THEN 0 ELSE CHOOSE i \in open : \A j \in open : j <= i

ChildOfOpenRecord(doc, pos) ==
    Parent(doc, pos) # 0 /\ doc[Parent(doc, pos)].name = "Record"

C12_Step ==
    AtEvent =>
        LET e == px.doc[px.pos]
            before == Committed(px, db, "record_metadata", "metadata_batch")
            after == Committed(px', db', "record_metadata", "metadata_batch")
        IN IF /\ e.name = "MetadataEntry" /\ e.kind \in {"Start", "Empty"}
              /\ ChildOfOpenRecord(px.doc, px.pos)
              /\ ~InsideOpen(px.doc, px.pos, "Workout")
           THEN after =
                  Append(before,
                         [record_hash |->
                              XmlRecordHash(px.doc[Parent(px.doc, px.pos)]),
                          key |-> unwrap_or_default(attr_value(e, "key")),
                          value |-> unwrap_or_default(attr_value(e, "value"))])
           ELSE after = before

\* C12: a step of the loop commits a metadata row exactly when its event is
\* a MetadataEntry whose parent element is an open Record and which is not
\* inside a Workout; the row carries the identity of that Record and the
\* entry's key and value; every other step commits no metadata row.
C12_MetadataOfOpenRecord == [][C12_Step]_vars

\* The rows a step of the loop appends to table t.
AppendedBy(t) == Len(db'[t]) - Len(db[t])

C17_Bounded == \A t \in DOMAIN BatchOf : Len(px[BatchOf[t]]) <= BATCH_SIZE

C17_Step ==
    px.pc = "loop" /\ px'.pc = "loop"
    => \A t \in DOMAIN BatchOf : AppendedBy(t) <= BATCH_SIZE

\* C17: during import_xml none of the six row batches holds more than
\* BATCH_SIZE rows, and no flush inside the loop appends more than
\* BATCH_SIZE rows: a batch is flushed as soon as it reaches the threshold.
C17_BatchesBounded == [](px.pc # "idle" => C17_Bounded) /\ [][C17_Step]_vars

\* The ImportStats counter that counts the rows of each table.
StatOf ==
    [records |-> "records", record_metadata |-> "metadata_entries",
     workouts |-> "workouts", workout_events |-> "workout_events",
     workout_statistics |-> "workout_statistics",
     activity_summaries |-> "activity_summaries"]

C18_Step ==
    px.pc = "loop" /\ px'.pc # "failed"
    => \A t \in DOMAIN BatchOf :
          /\ IsPrefix(Committed(px, db, t, BatchOf[t]),
                      Committed(px', db', t, BatchOf[t]))
          /\ Len(Committed(px', db', t, BatchOf[t]))
               - Len(Committed(px, db, t, BatchOf[t]))
             = px'.stats[StatOf[t]] - px.stats[StatOf[t]]

C18_AtOk ==
    px.pc = "done"
    => \A t \in DOMAIN BatchOf :
          /\ px[BatchOf[t]] = <<>>
          /\ Len(db[t]) = px.stats[StatOf[t]]

\* C18: every row pushed onto a committed batch stays, in order, in the
\* batch or in the table it is flushed to, each counted once by its
\* ImportStats counter; when import_xml returns Ok the six batches are
\* empty and each counter equals the number of rows the call appended to
\* its table, also when the input ended inside an open element.
C18_AllFlushedAtOk == [][C18_Step]_vars /\ []C18_AtOk

\* import_xml returned Ok on a document that ended inside an open Record
\* whose row and metadata row were flushed at the end of input.
C18_Witness ==
    /\ px.pc = "done"
    /\ px.in_record
    /\ db.records # <<>>
    /\ db.record_metadata # <<>>

\* A reader error, or a Record element that lacks one of the attributes
\* type, sourceName, startDate and endDate.
Malformed(e) ==
    \/ e.kind = "Err"
    \/ /\ e.kind \in {"Start", "Empty"}
       /\ e.name = "Record"
       /\ ~({"type", "sourceName", "startDate", "endDate"}
              \subseteq DOMAIN e.attrs)

C19_Step ==
    (AtEvent /\ Malformed(px.doc[px.pos]))
    => /\ px' = [px EXCEPT !.pos = @ + 1]
       /\ db' = db

\* C19: a reader error event or an element with a missing attribute is
\* skipped by import_xml: the call does not fail on it, the context flags,
\* the batches, the counters and the sink stay as they were, and the loop
\* goes on with the next event.
C19_MalformedSkipped == [][C19_Step]_vars

\* ------------------------------------------------------------------------
\* xml.rs: Record elements outside correlations
\* ------------------------------------------------------------------------
\* The start tags of the Record elements of doc that do not lie inside a
\* Correlation element.
RecordsOutsideCorrelations(doc) ==
    {i \in 1..Len(doc) :
        /\ doc[i].name = "Record" /\ doc[i].kind \in {"Start", "Empty"}
        /\ ~InsideOpen(doc, i, "Correlation")}

C35_Step ==
    (AtEvent /\ px'.pc # "failed"
       /\ px.pos \in RecordsOutsideCorrelations(px.doc))
    => /\ Len(Committed(px', db', "records", "record_batch"))
            = Len(Committed(px, db, "records", "record_batch")) + 1
       /\ px'.stats.records = px.stats.records + 1

C35_AtOk ==
    px.pc = "done"
    => Len(db.records) = Cardinality(RecordsOutsideCorrelations(px.doc))

\* C35: a step of import_xml on a Record element that is not inside a
\* Correlation element commits exactly one records row and counts it,
\* wherever the element stands in the document; when import_xml returns Ok
\* the records table holds as many rows as the document has Record elements
\* outside correlations.
C35_RecordsOutsideCorrelations == [][C35_Step]_vars /\ []C35_AtOk

\* ------------------------------------------------------------------------
\* xml.rs: Workout elements whose end is reached
\* ------------------------------------------------------------------------
\* The event at pos is the end of a Workout element: its end tag, or the
\* element itself when it is self-closing.
WorkoutEndsAt(doc, pos) ==
    /\ doc[pos].name = "Workout"
    /\ doc[pos].kind \in {"End", "Empty"}

C36_Step ==
    (AtEvent /\ px'.pc # "failed" /\ WorkoutEndsAt(px.doc, px.pos))
    => /\ Len(Committed(px', db', "workouts", "workout_batch"))
            = Len(Committed(px, db, "workouts", "workout_batch")) + 1
       /\ px'.stats.workouts = px.stats.workouts + 1
       /\ ~px'.in_workout

C36_AtOk ==
    px.pc = "done"
    => Len(db.workouts) = Cardinality(ReachedCloseWorkouts(px.doc))

\* C36: the step of import_xml that reaches the end of a Workout element,
\* an end tag or a self-closing element, commits exactly one workouts row,
\* counts it and leaves the workout context; when import_xml returns Ok the
\* workouts table holds as many rows as the document has Workout elements
\* whose end was reached.
C36_WorkoutRowAtEnd == [][C36_Step]_vars /\ []C36_AtOk

\* ------------------------------------------------------------------------
\* db.rs: deduplicate_tables and rebuild_daily_stats
\* ------------------------------------------------------------------------
Range(rows) == {rows[i] : i \in 1..Len(rows)}

KeyOf(row, cols) == [c \in cols |-> row[c]]

\* The n-th smallest member of a finite set of numbers.
Nth(S, n) == CHOOSE i \in S : Cardinality({j \in S : j <= i}) = n

\* The values of the DISTINCT ON columns, in order of first occurrence.
DistinctKeys(rows, cols) ==
    CHOOSE keys \in
      {[n \in 1..Cardinality(firsts) |-> KeyOf(rows[Nth(firsts, n)], cols)] :
         firsts \in
           {{i \in 1..Len(rows) :
               \A j \in 1..(i - 1) :
                  KeyOf(rows[j], cols) # KeyOf(rows[i], cols)}}} : TRUE

RowsWith(rows, cols, k) == {r \in Range(rows) : KeyOf(r, cols) = k}

\* The string order of two import identifiers: the prefix is the same and
\* the timestamp is printed with a fixed width, most significant field
\* first.
ImportIdLeq(a, b) == a[2] <= b[2]

\* ORDER BY date_components, import_id DESC: the rows of a group that come
\* first are those with the greatest import_id.
FirstByImportIdDesc(group) ==
    {r \in group : \A q \in group : ImportIdLeq(q.import_id, r.import_id)}

\* The positions of the different rows the query may keep for key k.
Candidates(rows, cols, k, ordered) ==
    LET group == RowsWith(rows, cols, k)
        first == IF ordered THEN FirstByImportIdDesc(group) ELSE group
    IN {i \in 1..Len(rows) :
          rows[i] \in first /\ \A j \in 1..(i - 1) : rows[j] # rows[i]}

\* The greatest member of a finite set of naturals, 0 for the empty set.
Max(S) == IF S = {} THEN 0 ELSE CHOOSE m \in S : \A x \in S : x <= m

\* The tables with one of its candidate rows for each key, the keys in
\* order of first occurrence.
PickPerKey(rows, cols, ordered) ==
    UNION
      {{[n \in 1..Len(keys) |-> rows[Nth(cand[n], c[n])]] :
          c \in {c \in [1..Len(keys) ->
                          1..Max({Cardinality(cand[n]) : n \in 1..Len(keys)})] :
                   \A n \in 1..Len(keys) : c[n] <= Cardinality(cand[n])}} :
         <<keys, cand>> \in
           {<<ks, [n \in 1..Len(ks) |->
                     Candidates(rows, cols, ks[n], ordered)]>> :
              ks \in {DistinctKeys(rows, cols)}}}

\* A variant that compares whole rows: SELECT DISTINCT * FROM t.
DistinctOn_WholeRow(rows, cols) ==
    PickPerKey(rows, IF rows = <<>> THEN cols ELSE DOMAIN rows[1], FALSE)

\* SELECT DISTINCT ON (cols) * FROM t: one row for each value of cols.  SQL
\* leaves open which row of a group is kept when no ORDER BY decides it, so
\* the result is any of a set of tables.
DistinctOn(rows, cols) == PickPerKey(rows, cols, FALSE)

\* SELECT DISTINCT ON (cols) * FROM t ORDER BY cols, import_id DESC
DistinctOnLatest(rows, cols) == PickPerKey(rows, cols, TRUE)

\* The sinks deduplicate_tables can leave.  workout_events and
\* workout_statistics are not among the tables it rewrites.
deduplicate_tables(sink) ==
    {[sink EXCEPT !.records = rec, !.record_metadata = met,
                  !.workouts = wk, !.activity_summaries = act,
                  !.ecg_readings = ecg, !.ecg_samples = smp,
                  !.route_points = pts, !.imports = imp] :
        rec \in DistinctOn(sink.records, {"record_hash"}),
        met \in DistinctOn(sink.record_metadata, {"record_hash", "key"}),
        wk \in DistinctOn(sink.workouts, {"workout_hash"}),
        act \in DistinctOnLatest(sink.activity_summaries, {"date_components"}),
        ecg \in DistinctOn(sink.ecg_readings, {"ecg_hash"}),
        smp \in DistinctOn(sink.ecg_samples, {"ecg_hash", "sample_idx"}),
        pts \in DistinctOn(sink.route_points, {"point_hash"}),
        imp \in DistinctOn(sink.imports, {"import_id"})}

\* CAST(start_date AS DATE): the part of the timestamp before the time.
CastAsDate(ts) == IF ts = <<>> THEN <<>> ELSE <<ts[1]>>

RECURSIVE SumValues(_)
SumValues(rows) ==
    IF rows = <<>> THEN 0
    ELSE F64Value(Head(rows).value[1]) + SumValues(Tail(rows))

\* The GROUP BY columns of a row of records.
DailyStatsKey(r) ==
    [record_type |-> r.record_type, date |-> CastAsDate(r.start_date),
     unit |-> r.unit]

\* One row of daily_record_stats.  AVG(value) is the quotient of sum_value
\* and count, which the row carries as that pair.
DailyStatsRow(k, group) ==
    LET vals == {F64Value(group[i].value[1]) : i \in 1..Len(group)}
    IN [record_type |-> k.record_type, date |-> k.date, unit |-> k.unit,
        count |-> Len(group),
        avg_value |-> <<SumValues(group), Len(group)>>,
        min_value |-> CHOOSE v \in vals : \A w \in vals : v <= w,
        max_value |-> CHOOSE v \in vals : \A w \in vals : w <= v,
        sum_value |-> SumValues(group)]

\* SELECT ... FROM records WHERE value IS NOT NULL GROUP BY ...: the groups
\* in order of first occurrence.
DailyStatsOf(records) ==
    LET HasValue(r) == r.value # None
    IN CHOOSE stats \in
         {[n \in 1..Len(keys) |->
             LET InGroup(r) == DailyStatsKey(r) = keys[n]
             IN DailyStatsRow(keys[n], SelectSeq(valued, InGroup))] :
            <<valued, keys>> \in
              {<<v, DistinctKeys([i \in 1..Len(v) |-> DailyStatsKey(v[i])],
                                 {"record_type", "date", "unit"})>> :
                 v \in {SelectSeq(records, HasValue)}}} : TRUE

\* A variant that inserts the aggregates into the existing table.
rebuild_daily_stats_Insert(sink) ==
    [sink EXCEPT !.daily_record_stats = @ \o DailyStatsOf(sink.records)]

\* CREATE OR REPLACE TABLE daily_record_stats AS SELECT ...
rebuild_daily_stats(sink) ==
    [sink EXCEPT !.daily_record_stats = DailyStatsOf(sink.records)]

\* ------------------------------------------------------------------------
\* import/ecg.rs
\* ------------------------------------------------------------------------
\* str::trim: whitespace at both ends is dropped.
RECURSIVE TrimStart(_)
TrimStart(s) == IF s # <<>> /\ Head(s) = " " THEN TrimStart(Tail(s)) ELSE s

RECURSIVE TrimEnd(_)
TrimEnd(s) ==
    IF s # <<>> /\ s[Len(s)] = " " THEN TrimEnd(SubSeq(s, 1, Len(s) - 1))
    ELSE s

Trim(s) == TrimEnd(TrimStart(s))

\* line.starts_with("<key>,") and line.strip_prefix("<key>,").unwrap_or("")
StartsWithKey(line, key) == Len(line) >= 2 /\ line[1] = key /\ line[2] = ","
StripKey(line) == SubSeq(line, 3, Len(line))

\* d.trim_matches('"')
RECURSIVE TrimQuotes(_)
TrimQuotes(s) ==
    IF s # <<>> /\ Head(s) = "\"" THEN TrimQuotes(Tail(s))
    ELSE IF s # <<>> /\ s[Len(s)] = "\""
    THEN TrimQuotes(SubSeq(s, 1, Len(s) - 1))
    ELSE s

\* sr_str.split_whitespace().next()
FirstWord(s) ==
    LET t == TrimStart(s)
        sp == IndexOf(t, " ")
    IN IF t = <<>> THEN None
       ELSE IF sp = 0 THEN Some(t) ELSE Some(SubSeq(t, 1, sp - 1))

EcgHeaderDefault ==
    [recorded_date |-> <<>>, classification |-> None, device |-> None,
     sample_rate_hz |-> None, symptoms |-> None, software_version |-> None]

\* A variant of the header loop that keeps the value of the Name line, as
\* the symptoms.
RECURSIVE EcgHeader_KeepsName(_, _)
EcgHeader_KeepsName(lines, h) ==
    IF lines = <<>> THEN h
    ELSE LET line == Trim(Head(lines))
             rest == Tail(lines)
         IN IF line = <<>> THEN EcgHeader_KeepsName(rest, h)
            ELSE IF StartsWithKey(line, "Name")
            THEN EcgHeader_KeepsName(rest,
                     [h EXCEPT !.symptoms = Some(StripKey(line))])
            ELSE IF StartsWithKey(line, "Date of Birth")
            THEN EcgHeader_KeepsName(rest, h)
            ELSE IF StartsWithKey(line, "Recorded Date")
            THEN EcgHeader_KeepsName(rest,
                     [h EXCEPT !.recorded_date = clean_date(StripKey(line))])
            ELSE IF StartsWithKey(line, "Classification")
            THEN EcgHeader_KeepsName(rest,
                     [h EXCEPT !.classification = Some(StripKey(line))])
            ELSE IF StartsWithKey(line, "Symptoms")
            THEN EcgHeader_KeepsName(rest,
                     IF StripKey(line) # <<>>
                     THEN [h EXCEPT !.symptoms = Some(StripKey(line))]
                     ELSE h)
            ELSE IF StartsWithKey(line, "Software Version")
            THEN EcgHeader_KeepsName(rest,
                     [h EXCEPT !.software_version = Some(StripKey(line))])
            ELSE IF StartsWithKey(line, "Device")
            THEN EcgHeader_KeepsName(rest,
                     [h EXCEPT !.device = Some(TrimQuotes(StripKey(line)))])
            ELSE IF StartsWithKey(line, "Sample Rate")
            THEN EcgHeader_KeepsName(rest,
                     [h EXCEPT !.sample_rate_hz =
                         IF FirstWord(StripKey(line)) = None THEN None
                         ELSE ParseF64(FirstWord(StripKey(line))[1])])
            ELSE IF StartsWithKey(line, "Lead") \/ StartsWithKey(line, "Unit")
            THEN EcgHeader_KeepsName(rest, h)
            ELSE h

\* The header loop: it ends at the first line that is neither blank nor
\* one of the known "Key,Value" lines.
RECURSIVE EcgHeader(_, _)
EcgHeader(lines, h) ==
    IF lines = <<>> THEN h
    ELSE LET line == Trim(Head(lines))
             rest == Tail(lines)
         IN IF line = <<>> THEN EcgHeader(rest, h)
            ELSE IF StartsWithKey(line, "Name") THEN EcgHeader(rest, h)
            ELSE IF StartsWithKey(line, "Date of Birth")
            THEN EcgHeader(rest, h)
            ELSE IF StartsWithKey(line, "Recorded Date")
            THEN EcgHeader(rest,
                     [h EXCEPT !.recorded_date = clean_date(StripKey(line))])
            ELSE IF StartsWithKey(line, "Classification")
            THEN EcgHeader(rest,
                     [h EXCEPT !.classification = Some(StripKey(line))])
            ELSE IF StartsWithKey(line, "Symptoms")
            THEN EcgHeader(rest,
                     IF StripKey(line) # <<>>
                     THEN [h EXCEPT !.symptoms = Some(StripKey(line))]
                     ELSE h)
            ELSE IF StartsWithKey(line, "Software Version")
            THEN EcgHeader(rest,
                     [h EXCEPT !.software_version = Some(StripKey(line))])
            ELSE IF StartsWithKey(line, "Device")
            THEN EcgHeader(rest,
                     [h EXCEPT !.device = Some(TrimQuotes(StripKey(line)))])
            ELSE IF StartsWithKey(line, "Sample Rate")
            THEN EcgHeader(rest,
                     [h EXCEPT !.sample_rate_hz =
                         IF FirstWord(StripKey(line)) = None THEN None
                         ELSE ParseF64(FirstWord(StripKey(line))[1])])
            ELSE IF StartsWithKey(line, "Lead") \/ StartsWithKey(line, "Unit")
            THEN EcgHeader(rest, h)
            ELSE h

\* A variant of the voltage loop that loses the first line that parses as
\* a number, as a loop that went on from where the header loop stopped
\* would.
RECURSIVE EcgSamples_FirstLost(_, _, _, _)
EcgSamples_FirstLost(lines, ecg_hash, in_data, sample_idx) ==
    IF lines = <<>> THEN <<>>
    ELSE LET line == Trim(Head(lines))
             rest == Tail(lines)
         IN IF line = <<>>
            THEN EcgSamples_FirstLost(rest, ecg_hash, in_data, sample_idx)
            ELSE IF ParseF64(line) # None
            THEN (IF in_data
                  THEN <<[ecg_hash |-> ecg_hash, sample_idx |-> sample_idx,
                          voltage |-> ParseF64(line)[1]]>>
                  ELSE <<>>)
                 \o EcgSamples_FirstLost(rest, ecg_hash, TRUE,
                                         IF in_data THEN sample_idx + 1
                                         ELSE sample_idx)
            ELSE IF in_data THEN <<>>
            ELSE EcgSamples_FirstLost(rest, ecg_hash, in_data, sample_idx)

\* The voltage loop, over the file from its first line: every line that
\* parses as a number is a sample; the first other line after a sample
\* ends the loop.
RECURSIVE EcgSamples(_, _, _, _)
EcgSamples(lines, ecg_hash, in_data, sample_idx) ==
    IF lines = <<>> THEN <<>>
    ELSE LET line == Trim(Head(lines))
             rest == Tail(lines)
         IN IF line = <<>>
            THEN EcgSamples(rest, ecg_hash, in_data, sample_idx)
            ELSE IF ParseF64(line) # None
            THEN <<[ecg_hash |-> ecg_hash, sample_idx |-> sample_idx,
                    voltage |-> ParseF64(line)[1]]>>
                 \o EcgSamples(rest, ecg_hash, TRUE, sample_idx + 1)
            ELSE IF in_data THEN <<>>
            ELSE EcgSamples(rest, ecg_hash, in_data, sample_idx)

\* A variant without the check of lines 110 to 112: the reading is stored
\* whatever its recorded date.
import_single_ecg_NoDateCheck(sink, lines, import_id) ==
    CHOOSE r \in
      {IF FALSE THEN [ok |-> FALSE, db |-> sink]
       ELSE [ok |-> TRUE,
             db |-> [sink EXCEPT
                       !.ecg_readings =
                           Append(@, [ecg_hash |-> ecg_hash,
                                      recorded_date |-> h.recorded_date,
                                      classification |-> h.classification,
                                      device |-> h.device,
                                      sample_rate_hz |-> h.sample_rate_hz,
                                      symptoms |-> h.symptoms,
                                      software_version |-> h.software_version,
                                      import_id |-> import_id]),
                       !.ecg_samples =
                           @ \o EcgSamples(lines, ecg_hash, FALSE, 0)]] :
         <<h, ecg_hash>> \in
           {<<hd, compute_hash(<<hd.recorded_date,
                                 unwrap_or_default(hd.device)>>)>> :
              hd \in {EcgHeader(lines, EcgHeaderDefault)}}} : TRUE

\* import_single_ecg on a file that can be read: [ok, db].
import_single_ecg(sink, lines, import_id) ==
    CHOOSE r \in
      {IF h.recorded_date = <<>> THEN [ok |-> FALSE, db |-> sink]
       ELSE [ok |-> TRUE,
             db |-> [sink EXCEPT
                       !.ecg_readings =
                           Append(@, [ecg_hash |-> ecg_hash,
                                      recorded_date |-> h.recorded_date,
                                      classification |-> h.classification,
                                      device |-> h.device,
                                      sample_rate_hz |-> h.sample_rate_hz,
                                      symptoms |-> h.symptoms,
                                      software_version |-> h.software_version,
                                      import_id |-> import_id]),
                       !.ecg_samples =
                           @ \o EcgSamples(lines, ecg_hash, FALSE, 0)]] :
         <<h, ecg_hash>> \in
           {<<hd, compute_hash(<<hd.recorded_date,
                                 unwrap_or_default(hd.device)>>)>> :
              hd \in {EcgHeader(lines, EcgHeaderDefault)}}} : TRUE

\* path.extension(): the part of the file name after its last ".".
Extension(name) ==
    IF Len(name) >= 3 /\ name[Len(name) - 1] = "." THEN Some(name[Len(name)])
    ELSE None

\* The tokens file names are written with, in the byte order of their
\* text, which is the order of paths within one directory.
PathTokens ==
    <<".", "bad_ecg", "csv", "ecg_2023", "ecg_2024", "gpx", "notes",
      "route_2024-01-01", "route_2024-01-02", "txt">>

TokenRank(t) == CHOOSE i \in 1..Len(PathTokens) : PathTokens[i] = t

\* a < b as paths.
RECURSIVE PathLess(_, _)
PathLess(a, b) ==
    IF b = <<>> THEN FALSE
    ELSE IF a = <<>> THEN TRUE
    ELSE IF Head(a) = Head(b) THEN PathLess(Tail(a), Tail(b))
    ELSE TokenRank(Head(a)) < TokenRank(Head(b))

\* A variant that leaves the entries in the order read_dir lists them.
SortByPath_Unsorted(files) == files

\* entries.sort_by_key(|e| e.path())
RECURSIVE SortByPath(_)
SortByPath(files) ==
    IF files = <<>> THEN <<>>
    ELSE LET Before(f) == PathLess(f.name, Head(files).name)
             NotBefore(f) == ~PathLess(f.name, Head(files).name)
             rest == SortByPath(Tail(files))
         IN SelectSeq(rest, Before) \o <<Head(files)>>
            \o SelectSeq(rest, NotBefore)

\* A file of a directory is [name, content]; a file that cannot be read
\* has no content.  fs::read_to_string(path).context(..)? comes first in
\* import_single_ecg.
import_single_ecg_path(sink, file, import_id) ==
    IF "content" \in DOMAIN file
    THEN import_single_ecg(sink, file.content, import_id)
    ELSE [ok |-> FALSE, db |-> sink]

\* The entries of the directory with extension csv, sorted by path.
EcgEntries(files) ==
    LET IsCsv(f) == Extension(f.name) = Some("csv")
    IN SortByPath(SelectSeq(files, IsCsv))

\* The loop of import_ecg_files over the sorted entries: a file that fails
\* is logged and skipped.  [count, db].
RECURSIVE EcgFilesLoop(_, _, _, _)
EcgFilesLoop(sink, entries, import_id, count) ==
    IF entries = <<>> THEN [count |-> count, db |-> sink]
    ELSE CHOOSE done \in
           {EcgFilesLoop(r.db, Tail(entries), import_id,
                         IF r.ok THEN count + 1 ELSE count) :
              r \in {import_single_ecg_path(sink, Head(entries),
                                            import_id)}} : TRUE

\* A directory is None when it does not exist, else Some(files), the files
\* in the order read_dir lists them.
import_ecg_files(sink, ecg_dir, import_id) ==
    IF ecg_dir = None THEN [count |-> 0, db |-> sink]
    ELSE EcgFilesLoop(sink, EcgEntries(ecg_dir[1]), import_id, 0)

\* ------------------------------------------------------------------------
\* import/gpx.rs
\* ------------------------------------------------------------------------
\* The text of a <time> element is one token; clean_timestamp works on its
\* characters.
RECURSIVE TrimChars(_)
TrimChars(s) ==
    IF Len(s) > 0 /\ SubSeq(s, 1, 1) = " " THEN TrimChars(SubSeq(s, 2, Len(s)))
    ELSE IF Len(s) > 0 /\ SubSeq(s, Len(s), Len(s)) = " "
    THEN TrimChars(SubSeq(s, 1, Len(s) - 1))
    ELSE s

\* s.replace('T', " ")
RECURSIVE ReplaceT(_)
ReplaceT(s) ==
    IF Len(s) = 0 THEN s
    ELSE (IF SubSeq(s, 1, 1) = "T" THEN " " ELSE SubSeq(s, 1, 1))
         \o ReplaceT(SubSeq(s, 2, Len(s)))

\* A variant that removes an offset only when it begins with "+".
clean_timestamp_PlusOnly(ts) ==
    LET t == TrimChars(ts)
        s == IF Len(t) > 0 /\ SubSeq(t, Len(t), Len(t)) = "Z"
             THEN SubSeq(t, 1, Len(t) - 1) ELSE t
        tail == SubSeq(s, Len(s) - 5, Len(s))
        cut == /\ Len(s) > 6
               /\ SubSeq(tail, 1, 1) = "+"
               /\ \E i \in 1..6 : SubSeq(tail, i, i) = ":"
    IN ReplaceT(IF cut THEN SubSeq(s, 1, Len(s) - 6) ELSE s)

clean_timestamp(ts) ==
    LET t == TrimChars(ts)
        s == IF Len(t) > 0 /\ SubSeq(t, Len(t), Len(t)) = "Z"
             THEN SubSeq(t, 1, Len(t) - 1) ELSE t
        tail == SubSeq(s, Len(s) - 5, Len(s))
        cut == /\ Len(s) > 6
               /\ SubSeq(tail, 1, 1) \in {"+", "-"}
               /\ \E i \in 1..6 : SubSeq(tail, i, i) = ":"
    IN ReplaceT(IF cut THEN SubSeq(s, 1, Len(s) - 6) ELSE s)

\* The characters of a string of tokens.
RECURSIVE Join(_)
Join(tokens) == IF tokens = <<>> THEN "" ELSE Head(tokens) \o Join(Tail(tokens))

\* A text event of the reader, trimmed (trim_text(true)).
TextEv(text) == [kind |-> "Text", name |-> "", attrs |-> NoAttrs, text |-> text]

GpxLocals ==
    [count |-> 0, rows |-> <<>>, in_trkpt |-> FALSE, lat |-> None,
     lon |-> None, ele |-> None, timestamp |-> None, speed |-> None,
     course |-> None, h_accuracy |-> None, v_accuracy |-> None,
     current_tag |-> None]

\* A variant of the Start arm that leaves the scratch values of the
\* previous track point in place.
GpxOnStart_NoReset(g, e) ==
    CASE e.name = "trkpt" ->
             [g EXCEPT !.in_trkpt = TRUE,
                       !.lat = parse_opt_f64(attr_value(e, "lat")),
                       !.lon = parse_opt_f64(attr_value(e, "lon"))]
      [] e.name \in {"ele", "time", "speed", "course", "hAcc", "vAcc"}
         /\ g.in_trkpt ->
             [g EXCEPT !.current_tag = Some(e.name)]
      [] OTHER -> g

\* Ok(Event::Start(ref e))
GpxOnStart(g, e) ==
    CASE e.name = "trkpt" ->
             [g EXCEPT !.in_trkpt = TRUE,
                       !.lat = parse_opt_f64(attr_value(e, "lat")),
                       !.lon = parse_opt_f64(attr_value(e, "lon")),
                       !.ele = None, !.timestamp = None, !.speed = None,
                       !.course = None, !.h_accuracy = None,
                       !.v_accuracy = None]
      [] e.name \in {"ele", "time", "speed", "course", "hAcc", "vAcc"}
         /\ g.in_trkpt ->
             [g EXCEPT !.current_tag = Some(e.name)]
      [] OTHER -> g

\* Ok(Event::Text(ref t)) if in_trkpt
GpxOnText(g, e) ==
    IF g.current_tag = None THEN g
    ELSE CASE g.current_tag[1] = "ele" -> [g EXCEPT !.ele = ParseF64(e.text)]
           [] g.current_tag[1] = "time" ->
                  [g EXCEPT !.timestamp = Some(e.text)]
           [] g.current_tag[1] = "speed" ->
                  [g EXCEPT !.speed = ParseF64(e.text)]
           [] g.current_tag[1] = "course" ->
                  [g EXCEPT !.course = ParseF64(e.text)]
           [] g.current_tag[1] = "hAcc" ->
                  [g EXCEPT !.h_accuracy = ParseF64(e.text)]
           [] g.current_tag[1] = "vAcc" ->
                  [g EXCEPT !.v_accuracy = ParseF64(e.text)]
           [] OTHER -> g

\* A variant of the End arm that asks for the coordinates only: a track
\* point without a time is stored with an empty one.
GpxOnEnd_NoTimeNeeded(g, e, workout_hash, import_id) ==
    LET wh == unwrap_or_default(workout_hash)
        ts == unwrap_or_default(g.timestamp)
        row == [point_hash |->
                    compute_hash(<<wh, ts, F64ToString(g.lat[1]),
                                   F64ToString(g.lon[1])>>),
                workout_hash |-> workout_hash,
                latitude |-> g.lat[1], longitude |-> g.lon[1],
                elevation |-> g.ele,
                timestamp |-> <<clean_timestamp(Join(ts))>>,
                speed |-> g.speed, course |-> g.course,
                h_accuracy |-> g.h_accuracy, v_accuracy |-> g.v_accuracy,
                import_id |-> import_id]
        complete == g.lat # None /\ g.lon # None
        closed == IF e.name = "trkpt" /\ g.in_trkpt
                  THEN [(IF complete
                         THEN [g EXCEPT !.rows = Append(@, row),
                                        !.count = @ + 1]
                         ELSE g) EXCEPT !.in_trkpt = FALSE]
                  ELSE g
    IN [closed EXCEPT !.current_tag = None]

\* Ok(Event::End(ref e))
GpxOnEnd(g, e, workout_hash, import_id) ==
    LET wh == unwrap_or_default(workout_hash)
        row == [point_hash |->
                    compute_hash(<<wh, g.timestamp[1],
                                   F64ToString(g.lat[1]),
                                   F64ToString(g.lon[1])>>),
                workout_hash |-> workout_hash,
                latitude |-> g.lat[1], longitude |-> g.lon[1],
                elevation |-> g.ele,
                timestamp |-> <<clean_timestamp(Join(g.timestamp[1]))>>,
                speed |-> g.speed, course |-> g.course,
                h_accuracy |-> g.h_accuracy, v_accuracy |-> g.v_accuracy,
                import_id |-> import_id]
        complete == g.lat # None /\ g.lon # None /\ g.timestamp # None
        closed == IF e.name = "trkpt" /\ g.in_trkpt
                  THEN [(IF complete
                         THEN [g EXCEPT !.rows = Append(@, row),
                                        !.count = @ + 1]
                         ELSE g) EXCEPT !.in_trkpt = FALSE]
                  ELSE g
    IN [closed EXCEPT !.current_tag = None]

\* One iteration of the loop on an event other than Eof.
GpxLoopBody(g, e, workout_hash, import_id) ==
    CASE e.kind = "Start" -> GpxOnStart(g, e)
      [] e.kind = "Text" /\ g.in_trkpt -> GpxOnText(g, e)
      [] e.kind = "End" -> GpxOnEnd(g, e, workout_hash, import_id)
      [] OTHER -> g

\* The loop over the given events, from locals g.  The sequence is split
\* in halves, and the locals after the first half are computed before the
\* second half is begun: this only keeps the evaluation shallow.
RECURSIVE GpxLoop(_, _, _, _)
GpxLoop(g, events, workout_hash, import_id) ==
    IF events = <<>> THEN g
    ELSE IF Len(events) = 1
    THEN GpxLoopBody(g, events[1], workout_hash, import_id)
    ELSE LET half == Len(events) \div 2
         IN CHOOSE r \in
              {GpxLoop(mid, SubSeq(events, half + 1, Len(events)),
                       workout_hash, import_id) :
                 mid \in {GpxLoop(g, SubSeq(events, 1, half), workout_hash,
                                  import_id)}} : TRUE

\* import_single_gpx on a file that can be opened: [count, db].
import_single_gpx(sink, events, import_id, workout_hash) ==
    CHOOSE r \in
      {[count |-> g.count, db |-> [sink EXCEPT !.route_points = @ \o g.rows]] :
         g \in {GpxLoop(GpxLocals, events, workout_hash, import_id)}} : TRUE

\* fs::File::open(path).context("Failed to open GPX file")? comes first in
\* import_single_gpx: [ok, count, db].
import_single_gpx_path(sink, file, import_id, workout_hash) ==
    IF "content" \in DOMAIN file
    THEN CHOOSE r \in
           {[ok |-> TRUE, count |-> g.count, db |-> g.db] :
              g \in {import_single_gpx(sink, file.content, import_id,
                                       workout_hash)}} : TRUE
    ELSE [ok |-> FALSE, count |-> 0, db |-> sink]

\* The entries of the directory with extension gpx, sorted by path.
GpxEntries(files) ==
    LET IsGpx(f) == Extension(f.name) = Some("gpx")
    IN SortByPath(SelectSeq(files, IsGpx))

\* A variant of the lookup that gives the empty string for a file the map
\* does not have.
MapGet_OrEmpty(map, key) ==
    IF key \in DOMAIN map THEN Some(map[key]) ELSE Some(<<>>)

\* workout_route_map.get(&route_key).cloned(); the map is a function from
\* paths to workout hashes.
MapGet(map, key) == IF key \in DOMAIN map THEN Some(map[key]) ELSE None

RECURSIVE GpxFilesLoop(_, _, _, _, _)
GpxFilesLoop(sink, entries, import_id, workout_route_map, total) ==
    IF entries = <<>> THEN [count |-> total, db |-> sink]
    ELSE LET filename == Head(entries).name
             route_key == <<"/workout-routes/">> \o filename
         IN CHOOSE done \in
              {GpxFilesLoop(r.db, Tail(entries), import_id,
                            workout_route_map, total + r.count) :
                 r \in {import_single_gpx_path(
                            sink, Head(entries), import_id,
                            MapGet(workout_route_map, route_key))}} : TRUE

import_gpx_files(sink, routes_dir, import_id, workout_route_map) ==
    IF routes_dir = None THEN [count |-> 0, db |-> sink]
    ELSE GpxFilesLoop(sink, GpxEntries(routes_dir[1]), import_id,
                      workout_route_map, 0)

\* ------------------------------------------------------------------------
\* import/mod.rs: build_workout_route_map
\* ------------------------------------------------------------------------
\* The identity build_workout_route_map gives a Workout element.
RouteMapWorkoutHash(e) ==
    compute_hash(<<unwrap_or_default(attr_value(e, "workoutActivityType")),
                   unwrap_or_default(attr_value(e, "sourceName")),
                   unwrap_or_default(attr_value(e, "startDate")),
                   unwrap_or_default(attr_value(e, "endDate")),
                   unwrap_or_default(attr_value(e, "duration"))>>)

RouteMapLocals ==
    [map |-> [k \in {} |-> <<>>], in_workout |-> FALSE,
     current_workout_hash |-> None]

\* map.insert(path, wh.clone())
MapInsert(map, key, val) ==
    [k \in DOMAIN map \cup {key} |-> IF k = key THEN val ELSE map[k]]

\* One iteration of the loop on an event other than Eof.
RouteMapLoopBody(m, e) ==
    CASE e.kind \in {"Start", "Empty"} /\ e.name = "Workout" ->
             [m EXCEPT !.in_workout = TRUE,
                       !.current_workout_hash = Some(RouteMapWorkoutHash(e))]
      [] e.kind \in {"Start", "Empty"} /\ e.name = "FileReference"
         /\ m.in_workout ->
             IF m.current_workout_hash # None /\ attr_value(e, "path") # None
             THEN [m EXCEPT !.map = MapInsert(@, attr_value(e, "path")[1],
                                              m.current_workout_hash[1])]
             ELSE m
      [] e.kind = "End" /\ e.name = "Workout" ->
             [m EXCEPT !.in_workout = FALSE, !.current_workout_hash = None]
      [] OTHER -> m

\* The loop over the given events, from locals m.
RECURSIVE RouteMapLoop(_, _)
RouteMapLoop(m, events) ==
    IF events = <<>> THEN m
    ELSE IF Len(events) = 1 THEN RouteMapLoopBody(m, events[1])
    ELSE LET half == Len(events) \div 2
         IN CHOOSE r \in
              {RouteMapLoop(mid, SubSeq(events, half + 1, Len(events))) :
                 mid \in {RouteMapLoop(m, SubSeq(events, 1, half))}} : TRUE

build_workout_route_map(doc) == RouteMapLoop(RouteMapLocals, doc).map

\* ------------------------------------------------------------------------
\* Specification SpecXml, continued: the route map of the same document
\* ------------------------------------------------------------------------
\* import_xml has returned Ok and run_import goes on to
\* build_workout_route_map(&conn, &xml_path) on the same document.
XmlRouteMap ==
    /\ px.pc = "done"
    /\ fn = Idle
    /\ fn' = [pc |-> "done", map |-> build_workout_route_map(px.doc)]
    /\ UNCHANGED <<db, clock, export, run, px, hist>>

NextXml == XmlEvent \/ XmlEof \/ XmlRouteMap

SpecXml == InitXml /\ [][NextXml]_vars

\* C13: every value of the map build_workout_route_map returns is the
\* identity it computes for a Workout element whose end the document
\* reaches, and is the workout_hash of a row import_xml has stored in
\* workouts; a FileReference in a Workout that is never closed adds no
\* entry.
C13_MapOnlyClosedWorkouts ==
    fn.pc = "done" =>
        \A path \in DOMAIN fn.map :
            /\ \E i \in ReachedCloseWorkouts(px.doc) :
                   fn.map[path] = RouteMapWorkoutHash(px.doc[i])
            /\ fn.map[path] \in HashesOf(db.workouts)

\* ------------------------------------------------------------------------
\* Export bundles
\* ------------------------------------------------------------------------
\* tests/common/mod.rs MINIMAL_ECG_CSV, line by line.
MINIMAL_ECG_CSV ==
    <<<<"Name", ",", "Test User">>,
      <<"Date of Birth", ",", "1990-01-01">>,
      <<"Recorded Date", ",", "2024-06-15", " ", "10:30:00">> \o Tz,
      <<"Classification", ",", "Sinus Rhythm">>,
      <<"Symptoms", ",", "None">>,
      <<"Software Version", ",", "2", ".", "0">>,
      <<"Device", ",", "\"", "Apple Watch", "\"">>,
      <<"Sample Rate", ",", "5", "1", "2", ".", "0", "0", "0", " ", "Hz">>,
      <<"Lead", ",", "Lead I">>,
      <<"Unit", ",", "uV">>,
      <<>>,
      <<"1", "0", "0">>, <<"2", "0", "0">>, <<"-", "5", "0">>,
      <<"1", "5", "0">>, <<"7", "5">>>>

GpxField(tag, text) ==
    <<Ev("Start", tag, NoAttrs), TextEv(text), Ev("End", tag, NoAttrs)>>

\* tests/common/mod.rs MINIMAL_GPX, event by event.
MINIMAL_GPX ==
    <<Ev("Other", "Decl", NoAttrs),
      Ev("Start", "gpx", [version |-> <<"1", ".", "1">>]),
      Ev("Start", "trk", NoAttrs), Ev("Start", "trkseg", NoAttrs),
      Ev("Start", "trkpt",
         [lat |-> <<"3", "7", ".", "7", "7", "4", "9">>,
          lon |-> <<"-", "1", "2", "2", ".", "4", "1", "9", "4">>])>>
    \o GpxField("ele", <<"1", "0", ".", "5">>)
    \o GpxField("time", <<"2024-01-01T10:00:00Z">>)
    \o GpxField("speed", <<"3", ".", "5">>)
    \o GpxField("course", <<"1", "8", "0", ".", "0">>)
    \o GpxField("hAcc", <<"5", ".", "0">>)
    \o GpxField("vAcc", <<"3", ".", "0">>)
    \o <<Ev("End", "trkpt", NoAttrs),
         Ev("Start", "trkpt",
            [lat |-> <<"3", "7", ".", "7", "7", "5", "0">>,
             lon |-> <<"-", "1", "2", "2", ".", "4", "1", "9", "5">>])>>
    \o GpxField("ele", <<"1", "1", ".", "0">>)
    \o GpxField("time", <<"2024-01-01T10:00:05Z">>)
    \o GpxField("speed", <<"3", ".", "6">>)
    \o GpxField("course", <<"1", "8", "1", ".", "0">>)
    \o GpxField("hAcc", <<"4", ".", "5">>)
    \o GpxField("vAcc", <<"2", ".", "8">>)
    \o <<Ev("End", "trkpt", NoAttrs), Ev("End", "trkseg", NoAttrs),
         Ev("End", "trk", NoAttrs), Ev("End", "gpx", NoAttrs)>>

File(name, content) == [name |-> name, content |-> content]

\* The activity summary of the same day in an export made later that day.
SummaryJan1Evening ==
    [SummaryJan1 EXCEPT !.activeEnergyBurned = <<"6", "5", "0">>,
                        !.appleExerciseTime = <<"4", "5">>,
                        !.appleStandHours = <<"1", "2">>]

\* A workout whose dates carry no timezone suffix, with a route.
ElemWorkoutYoga ==
    <<Ev("Start", "Workout", WorkoutYoga),
      Ev("Start", "WorkoutRoute", NoAttrs),
      Ev("Empty", "FileReference", FileRefRoute),
      Ev("End", "WorkoutRoute", NoAttrs),
      Ev("End", "Workout", NoAttrs)>>

\* The Running workout of MINIMAL_XML as a later export writes it, without
\* the totalDistance and totalEnergyBurned attributes.
ElemWorkoutNoTotals ==
    <<Ev("Start", "Workout",
         [a \in DOMAIN WorkoutRunning \
                  {"totalDistance", "totalDistanceUnit", "totalEnergyBurned",
                   "totalEnergyBurnedUnit"} |-> WorkoutRunning[a]])>>
    \o Tail(ElemWorkout)

HealthData(elements) ==
    <<Ev("Start", "HealthData", [locale |-> <<"en_US">>])>> \o elements
    \o <<Ev("End", "HealthData", NoAttrs)>>

\* An export bundle: export.xml and the two directories, each None when
\* absent; "no_xml" is a directory without export.xml.  "minimal" is the bundle of run_import_end_to_end, "xml_only"
\* that of run_import_xml_only.
ExportNames ==
    {"minimal", "xml_only", "evening", "yoga", "revised", "no_xml"}

Exports ==
    [n \in ExportNames |->
       CASE n = "minimal" ->
              [xml |-> MINIMAL_XML,
               ecg |-> Some(<<File(<<"ecg_2024", ".", "csv">>,
                                   MINIMAL_ECG_CSV)>>),
               routes |-> Some(<<File(RouteFile, MINIMAL_GPX)>>)]
         [] n = "xml_only" ->
              [xml |-> MINIMAL_XML, ecg |-> None, routes |-> None]
         [] n = "evening" ->
              [xml |-> HealthData(
                         ElemRecord
                         \o <<Ev("Empty", "ActivitySummary",
                                 SummaryJan1Evening)>>),
               ecg |-> None, routes |-> None]
         [] n = "revised" ->
              [xml |-> HealthData(ElemWorkoutNoTotals),
               ecg |-> None, routes |-> None]
         [] n = "no_xml" ->
              [ecg |-> Some(<<File(<<"ecg_2024", ".", "csv">>,
                                   MINIMAL_ECG_CSV)>>),
               routes |-> None]
         [] n = "yoga" ->
              [xml |-> HealthData(ElemWorkoutYoga),
               ecg |-> None,
               routes |-> Some(<<File(<<"notes", ".", "txt">>, <<>>),
                                 File(RouteFile, MINIMAL_GPX)>>)]]

\* std::fs::File::open(export_dir.join("export.xml"))
OpenXml(bundle) ==
    IF "xml" \in DOMAIN bundle THEN Some(bundle.xml) ELSE None

\* ------------------------------------------------------------------------
\* import/mod.rs: run_import
\* ------------------------------------------------------------------------
MaxRuns == 2
MaxClock == 2

\* The locals of run_import after line 14.
RunLocals(export_dir, import_id) ==
    [pc |-> "import_xml", export_dir |-> export_dir, import_id |-> import_id,
     stats |-> ImportStatsDefault,
     workout_route_map |-> [k \in {} |-> <<>>],
     ecg_count |-> 0, route_points |-> 0]

\* INSERT INTO imports (...) VALUES (...)
ImportsRow(import_id, export_dir, stats) ==
    [import_id |-> import_id, export_dir |-> export_dir,
     record_count |-> stats.records, workout_count |-> stats.workouts]

\* The sinks a call of run_import that returns Ok can leave.
run_import(sink, bundle, export_dir, import_id) ==
    UNION
      {{[rebuild_daily_stats(d) EXCEPT
            !.imports = Append(@, ImportsRow(import_id, export_dir,
                                             x.p.stats))] :
           d \in deduplicate_tables(g.db)} :
         <<x, g>> \in
           {<<xr, import_gpx_files(
                     import_ecg_files(xr.db, bundle.ecg, import_id).db,
                     bundle.routes, import_id,
                     build_workout_route_map(bundle.xml))>> :
              xr \in {import_xml(sink, bundle.xml, import_id, 0)}}}

\* ------------------------------------------------------------------------
\* Specification Spec: run_import, one call of the function per step, on a
\* database file that persists from run to run
\* ------------------------------------------------------------------------
Init ==
    /\ db = EmptyDb /\ clock = 1 /\ run = Idle /\ px = Idle /\ fn = Idle
    /\ hist = <<>>
    /\ export \in ExportNames

\* A second of wall-clock time passes.
Tick ==
    /\ clock < MaxClock
    /\ clock' = clock + 1
    /\ UNCHANGED <<db, export, run, px, fn, hist>>

\* The user replaces the export directory with another export.
NewExport ==
    /\ run.pc \in {"idle", "done", "failed"}
    /\ export' \in ExportNames \ {export}
    /\ UNCHANGED <<db, clock, run, px, fn, hist>>

\* run_import is called: lines 13 to 19.
StartRun ==
    /\ run.pc \in {"idle", "done", "failed"}
    /\ Len(hist) < MaxRuns
    /\ run' = RunLocals(export, ImportId(clock))
    /\ UNCHANGED <<db, clock, export, px, fn, hist>>

Finish(ok) == hist' = Append(hist, [export |-> run.export_dir, ok |-> ok])

\* Phase 1: xml::import_xml(&conn, &xml_path, &import_id)?
PhaseXml ==
    /\ run.pc = "import_xml"
    /\ \E f \in 0..MaxFail :
         \E r \in {import_xml_path(db, OpenXml(Exports[run.export_dir]),
                                   run.import_id, f)} :
            /\ db' = r.db
            /\ IF Failed(r)
               THEN run' = [run EXCEPT !.pc = "failed"] /\ Finish(FALSE)
               ELSE /\ run' = [run EXCEPT !.pc = "build_workout_route_map",
                                          !.stats = r.p.stats]
                    /\ UNCHANGED hist
    /\ UNCHANGED <<clock, export, px, fn>>

\* build_workout_route_map(&conn, &xml_path)?
PhaseRouteMap ==
    /\ run.pc = "build_workout_route_map"
    /\ OpenXml(Exports[run.export_dir]) # None
    /\ run' = [run EXCEPT !.pc = "import_ecg_files",
                          !.workout_route_map =
                              build_workout_route_map(
                                  Exports[run.export_dir].xml)]
    /\ UNCHANGED <<db, clock, export, px, fn, hist>>

\* Phase 2: ecg::import_ecg_files(...)?
PhaseEcg ==
    /\ run.pc = "import_ecg_files"
    /\ \E r \in {import_ecg_files(db, Exports[run.export_dir].ecg,
                                  run.import_id)} :
          /\ db' = r.db
          /\ run' = [run EXCEPT !.pc = "import_gpx_files",
                                !.ecg_count = r.count]
    /\ UNCHANGED <<clock, export, px, fn, hist>>

\* Phase 3: gpx::import_gpx_files(...)?
PhaseGpx ==
    /\ run.pc = "import_gpx_files"
    /\ \E r \in {import_gpx_files(db, Exports[run.export_dir].routes,
                                  run.import_id, run.workout_route_map)} :
          /\ db' = r.db
          /\ run' = [run EXCEPT !.pc = "deduplicate_tables",
                                !.route_points = r.count]
    /\ UNCHANGED <<clock, export, px, fn, hist>>

\* Phase 4: deduplicate_tables(&conn)?
PhaseDedup ==
    /\ run.pc = "deduplicate_tables"
    /\ db' \in deduplicate_tables(db)
    /\ run' = [run EXCEPT !.pc = "rebuild_daily_stats"]
    /\ UNCHANGED <<clock, export, px, fn, hist>>

\* Phase 5: rebuild_daily_stats(&conn)?
PhaseStats ==
    /\ run.pc = "rebuild_daily_stats"
    /\ db' = rebuild_daily_stats(db)
    /\ run' = [run EXCEPT !.pc = "insert_imports"]
    /\ UNCHANGED <<clock, export, px, fn, hist>>

\* Phase 6: the INSERT INTO imports, then Ok(()).
PhaseLog ==
    /\ run.pc = "insert_imports"
    /\ db' = [db EXCEPT !.imports =
                 Append(@, ImportsRow(run.import_id, run.export_dir,
                                      run.stats))]
    /\ run' = [run EXCEPT !.pc = "done"]
    /\ Finish(TRUE)
    /\ UNCHANGED <<clock, export, px, fn>>

\* run_import without the ? operators: the error of a phase is dropped and
\* the run goes on to write its imports row.
PhaseErr_Swallowed ==
    /\ run.pc \in {"build_workout_route_map", "import_ecg_files",
                   "import_gpx_files", "deduplicate_tables",
                   "rebuild_daily_stats"}
    /\ run' = [run EXCEPT !.pc = "insert_imports"]
    /\ UNCHANGED <<db, clock, export, px, fn, hist>>

\* A variant in which a driver can also fail on a directory that does not
\* exist.
PhaseErr_AnyPhase ==
    /\ run.pc \in {"build_workout_route_map", "import_ecg_files",
                   "import_gpx_files", "deduplicate_tables",
                   "rebuild_daily_stats", "insert_imports"}
    /\ run' = [run EXCEPT !.pc = "failed"]
    /\ Finish(FALSE)
    /\ UNCHANGED <<db, clock, export, px, fn>>

\* One of the calls after import_xml returns Err before it has changed the
\* sink (the file or a directory cannot be read, a statement fails), and
\* the ? operator returns it from run_import.  A driver whose directory
\* does not exist returns Ok(0) before anything that can fail.
PhaseErr ==
    /\ run.pc \in {"build_workout_route_map", "import_ecg_files",
                   "import_gpx_files", "deduplicate_tables",
                   "rebuild_daily_stats", "insert_imports"}
    /\ ~(run.pc = "import_ecg_files"
          /\ Exports[run.export_dir].ecg = None)
    /\ ~(run.pc = "import_gpx_files"
          /\ Exports[run.export_dir].routes = None)
    /\ run' = [run EXCEPT !.pc = "failed"]
    /\ Finish(FALSE)
    /\ UNCHANGED <<db, clock, export, px, fn>>

Next ==
    \/ Tick \/ NewExport \/ StartRun \/ PhaseXml \/ PhaseRouteMap
    \/ PhaseEcg \/ PhaseGpx \/ PhaseDedup \/ PhaseStats \/ PhaseLog
    \/ PhaseErr

Spec == Init /\ [][Next]_vars

\* ------------------------------------------------------------------------
\* Properties of run_import (specification Spec)
\* ------------------------------------------------------------------------
EntityTables ==
    {"records", "record_metadata", "workouts", "workout_events",
     "workout_statistics", "activity_summaries", "ecg_readings",
     "ecg_samples", "route_points"}

WithoutImportId(row) == [c \in DOMAIN row \ {"import_id"} |-> row[c]]

\* The rows of a table as a multiset, the import-run id column left out.
RowBag(rows) ==
    LET stripped == [i \in 1..Len(rows) |-> WithoutImportId(rows[i])]
    IN [r \in Range(stripped) |->
           Cardinality({i \in 1..Len(rows) : stripped[i] = r})]

SameRows(a, b, tables) == \A t \in tables : RowBag(a[t]) = RowBag(b[t])

\* The completed runs so far were all made on the export of the last run.
SameExportThroughout ==
    \A i \in 1..Len(hist) : hist[i].export = run.export_dir

\* The sinks one successful run on a new database file can leave.
SingleRun == run_import(EmptyDb, Exports[run.export_dir], run.export_dir,
                        run.import_id)

\* C1: when run_import has completed for the second (third, ...) time on the
\* same export, every run before it having completed too, each entity
\* table and daily_record_stats hold the rows, import-run id aside, and the
\* row counts that a single run on a new database leaves.
C1_RerunLeavesSameRows ==
    (/\ run.pc = "done"
     /\ Len(hist) >= 2
     /\ SameExportThroughout
     /\ \A i \in 1..Len(hist) : hist[i].ok)
    => \E once \in SingleRun :
          SameRows(db, once, EntityTables \cup {"daily_record_stats"})

\* C2: when a run has failed part-way and a later run on the same export
\* completes, each entity table holds the rows, import-run id aside, that a
\* single successful run on a new database leaves.
C2_ConvergesAfterFailedRun ==
    (/\ run.pc = "done"
     /\ Len(hist) >= 2
     /\ SameExportThroughout
     /\ \A i \in 1..(Len(hist) - 1) : ~hist[i].ok)
    => \E once \in SingleRun : SameRows(db, once, EntityTables)

\* The activity-summary rows the run in progress has written.
SummariesOfThisRun ==
    import_xml(EmptyDb, Exports[run.export_dir].xml, run.import_id, 0)
        .db.activity_summaries

\* C5: once the deduplication of a run is done, the one activity-summary
\* row kept for each date that run has written is a row written by that
\* run, the most recently created of the runs that wrote to the sink.
C5_LatestRunWins ==
    run.pc \in {"rebuild_daily_stats", "insert_imports", "done"}
    => \A i \in 1..Len(SummariesOfThisRun) :
          LET kept == {r \in Range(db.activity_summaries) :
                          r.date_components =
                              SummariesOfThisRun[i].date_components}
          IN Cardinality(kept) = 1 /\ kept \subseteq Range(SummariesOfThisRun)

\* C8: for every Workout element of export.xml, the identity that
\* build_workout_route_map computes, and stores in the map for the paths
\* of the element's FileReference children, is the workout_hash import_xml
\* has stored for that element in the workouts table.
C8_RouteMapIdentityMatches ==
    run.pc \in {"import_ecg_files", "import_gpx_files"}
    => LET doc == Exports[run.export_dir].xml
       IN \A i \in 1..Len(doc) :
             (doc[i].name = "Workout" /\ doc[i].kind = "Start")
             => /\ XmlWorkoutHash(doc[i]) \in HashesOf(db.workouts)
                /\ RouteMapWorkoutHash(doc[i]) = XmlWorkoutHash(doc[i])
                /\ \A k \in ChildrenOf(doc, i, "FileReference") :
                      /\ doc[k].attrs.path \in DOMAIN run.workout_route_map
                      /\ run.workout_route_map[doc[k].attrs.path]
                            = XmlWorkoutHash(doc[i])

\* C9: a first run_import on the export of run_import_end_to_end leaves 2
\* records, 1 workout, 1 event, 1 statistic, 1 activity summary, 1 ECG
\* reading with 5 samples and 2 route points, and both route points carry
\* the workout_hash of the stored workout row.
C9_EndToEnd ==
    (/\ run.pc = "done"
     /\ run.export_dir = "minimal"
     /\ Len(hist) = 1)
    => /\ Len(db.records) = 2
       /\ Len(db.workouts) = 1
       /\ Len(db.workout_events) = 1
       /\ Len(db.workout_statistics) = 1
       /\ Len(db.activity_summaries) = 1
       /\ Len(db.ecg_readings) = 1
       /\ Len(db.ecg_samples) = 5
       /\ \A i \in 1..Len(db.ecg_samples) :
             db.ecg_samples[i].ecg_hash = db.ecg_readings[1].ecg_hash
       /\ Len(db.route_points) = 2
       /\ \A i \in 1..Len(db.route_points) :
             db.route_points[i].workout_hash
                = Some(db.workouts[1].workout_hash)

C14_Step ==
    run.pc \in {"import_xml", "import_ecg_files", "import_gpx_files"}
    => \A t \in EntityTables :
          \A i \in (Len(db[t]) + 1)..Len(db'[t]) :
              /\ "import_id" \in DOMAIN db'[t][i]
              /\ db'[t][i].import_id = run.import_id

\* C14: every row a parse phase of a run appends to records,
\* record_metadata, workouts, workout_events, workout_statistics,
\* activity_summaries, ecg_readings, ecg_samples or route_points has an
\* import_id column, and it holds the identifier of that run.
C14_RowsCarryRunId == [][C14_Step]_vars

\* ------------------------------------------------------------------------
\* Specification SpecApi: the functions of the library called one after the
\* other on one connection, in any order, as the tests call them
\* ------------------------------------------------------------------------
MaxCalls == 2

\* The documents import_xml is called on.
ApiXmlDocs ==
    <<MINIMAL_XML, Exports["evening"].xml, ElemWorkout \o ElemWorkoutCutOff,
      HealthData(ElemRecord \o ElemSleep)>>

\* The route maps import_gpx_files is called with.
ApiRouteMaps ==
    <<RouteMapLocals.map, build_workout_route_map(MINIMAL_XML)>>

\* hist in SpecApi: the number of import calls made, the last call and the
\* sink before it, and how far the convergence stage has been applied since
\* the last import call: 0 not at all, 1 deduplicate_tables, 2 then
\* rebuild_daily_stats, 3 then deduplicate_tables again, 4 then
\* rebuild_daily_stats again.
Call(op, doc, id) == [op |-> op, doc |-> doc, id |-> id]

AfterDedup == [s \in 0..4 |-> IF s = 0 THEN 1 ELSE IF s = 2 THEN 3 ELSE s]
AfterRebuild == [s \in 0..4 |-> IF s = 1 THEN 2 ELSE IF s = 3 THEN 4 ELSE s]

Called(call, n, stage) ==
    hist' = [n |-> n, stage |-> stage, last |-> call, before |-> db]

InitApi ==
    /\ db = EmptyDb /\ clock = 0 /\ export = <<>> /\ run = Idle /\ px = Idle
    /\ fn = Idle
    /\ hist = [n |-> 0, stage |-> 0, last |-> Call("none", 0, 0),
               before |-> EmptyDb]

\* import_xml(&conn, &xml_path, import_id).unwrap()
ApiImportXml ==
    /\ hist.n < MaxCalls
    /\ \E d \in 1..Len(ApiXmlDocs), id \in 1..MaxClock :
          /\ db' = import_xml(db, ApiXmlDocs[d], ImportId(id), 0).db
          /\ Called(Call("import_xml", d, id), hist.n + 1, 0)
    /\ UNCHANGED <<clock, export, run, px, fn>>

\* import_ecg_files(&conn, &ecg_dir, import_id).unwrap()
ApiImportEcg ==
    /\ hist.n < MaxCalls
    /\ \E id \in 1..MaxClock :
          /\ db' = import_ecg_files(db, Exports["minimal"].ecg,
                                    ImportId(id)).db
          /\ Called(Call("import_ecg_files", 0, id), hist.n + 1, 0)
    /\ UNCHANGED <<clock, export, run, px, fn>>

\* import_gpx_files(&conn, &gpx_dir, import_id, &route_map).unwrap()
ApiImportGpx ==
    /\ hist.n < MaxCalls
    /\ \E m \in 1..Len(ApiRouteMaps), id \in 1..MaxClock :
          /\ db' = import_gpx_files(db, Exports["minimal"].routes,
                                    ImportId(id), ApiRouteMaps[m]).db
          /\ Called(Call("import_gpx_files", m, id), hist.n + 1, 0)
    /\ UNCHANGED <<clock, export, run, px, fn>>

\* conn.execute("INSERT INTO imports (...) VALUES (...)"), as run_import
\* logs a run.
ApiInsertImports ==
    /\ hist.n < MaxCalls
    /\ \E id \in 1..MaxClock :
          /\ db' = [db EXCEPT !.imports =
                       Append(@, ImportsRow(ImportId(id), "minimal",
                                            ImportStatsDefault))]
          /\ Called(Call("insert_imports", 0, id), hist.n + 1, 0)
    /\ UNCHANGED <<clock, export, run, px, fn>>

\* deduplicate_tables(&conn).unwrap()
ApiDedup ==
    /\ db' \in deduplicate_tables(db)
    /\ Called(Call("deduplicate_tables", 0, 0), hist.n, AfterDedup[hist.stage])
    /\ UNCHANGED <<clock, export, run, px, fn>>

\* rebuild_daily_stats(&conn).unwrap()
ApiRebuild ==
    /\ db' = rebuild_daily_stats(db)
    /\ Called(Call("rebuild_daily_stats", 0, 0), hist.n,
              AfterRebuild[hist.stage])
    /\ UNCHANGED <<clock, export, run, px, fn>>

NextApi ==
    \/ ApiImportXml \/ ApiImportEcg \/ ApiImportGpx \/ ApiInsertImports
    \/ ApiDedup \/ ApiRebuild

SpecApi == InitApi /\ [][NextApi]_vars

\* The identity columns of the tables deduplicate_tables is to collapse.
IdentityOf ==
    [records |-> {"record_hash"},
     record_metadata |-> {"record_hash", "key"},
     workouts |-> {"workout_hash"},
     activity_summaries |-> {"date_components"},
     ecg_readings |-> {"ecg_hash"},
     ecg_samples |-> {"ecg_hash", "sample_idx"},
     route_points |-> {"point_hash"}]

KeysIn(rows, cols) == {KeyOf(rows[i], cols) : i \in 1..Len(rows)}

OneRowPerIdentity(before, after, cols) ==
    /\ KeysIn(after, cols) = KeysIn(before, cols)
    /\ Len(after) = Cardinality(KeysIn(after, cols))
    /\ Range(after) \subseteq Range(before)

C3_DedupStep ==
    hist'.last.op = "deduplicate_tables"
    => \A t \in DOMAIN IdentityOf :
          OneRowPerIdentity(db[t], db'[t], IdentityOf[t])

\* C3: a call of deduplicate_tables leaves, in each of records,
\* record_metadata, workouts, activity_summaries, ecg_readings, ecg_samples
\* and route_points, exactly one row for every identity the table held
\* before the call, each of them a row the table held, and no other row.
C3_OneRowPerIdentity == [][C3_DedupStep]_vars

\* MINIMAL_XML was imported twice and deduplicate_tables has removed the
\* second copy of every record, metadata entry, workout and summary.
C3_Witness ==
    /\ hist.last.op = "deduplicate_tables"
    /\ Len(hist.before.records) = 4 /\ Len(db.records) = 2
    /\ Len(hist.before.record_metadata) = 2 /\ Len(db.record_metadata) = 1
    /\ Len(hist.before.workouts) = 2 /\ Len(db.workouts) = 1
    /\ Len(hist.before.activity_summaries) = 2
    /\ Len(db.activity_summaries) = 1

\* The rows of a table as a multiset, every column included.
FullBag(rows) ==
    [r \in Range(rows) |-> Cardinality({i \in 1..Len(rows) : rows[i] = r})]

C4_StageStep ==
    (/\ hist.stage >= 2
     /\ hist'.last.op \in {"deduplicate_tables", "rebuild_daily_stats"})
    => \A t \in Tables : FullBag(db'[t]) = FullBag(db[t])

\* C4: once deduplicate_tables and then rebuild_daily_stats have been
\* applied, applying either of them again with no rows appended in between
\* leaves every table with the contents it had.
C4_ConvergenceIdempotent == [][C4_StageStep]_vars

\* Two imports, then the stage applied twice: duplicates were there to
\* remove and aggregates to build.
C4_Witness ==
    /\ hist.stage = 4
    /\ hist.n = 2
    /\ hist.last.op = "rebuild_daily_stats"
    /\ Len(db.records) = 2
    /\ Len(db.workout_events) = 2
    /\ Len(db.daily_record_stats) = 2

ParserTables ==
    {"records", "record_metadata", "workouts", "workout_events",
     "workout_statistics", "activity_summaries"}

\* What one import_xml of document d leaves in an empty sink.
SingleImport(d, id) == import_xml(EmptyDb, ApiXmlDocs[d], ImportId(id), 0).db

C6_ImportStep ==
    hist'.last.op = "import_xml"
    => \A t \in ParserTables :
          Len(db'[t]) = Len(db[t])
                        + Len(SingleImport(hist'.last.doc, hist'.last.id)[t])

C6_ImportedTwice ==
    (/\ hist.last.op = "import_xml"
     /\ \E id \in 1..MaxClock :
           hist.before = SingleImport(hist.last.doc, id))
    => \A t \in ParserTables : Len(db[t]) = 2 * Len(hist.before[t])

\* C6: import_xml appends every row it parses, whatever the sink holds
\* already: a document imported a second time, before deduplicate_tables
\* runs, leaves each of records, record_metadata, workouts, workout_events,
\* workout_statistics and activity_summaries with twice the rows of a
\* single import.
C6_NoWriteTimeDedup == [][C6_ImportStep]_vars /\ []C6_ImportedTwice

\* import_idempotent_with_dedup before its deduplicate_tables: MINIMAL_XML
\* imported as run 1 and again as run 2.
C6_Witness ==
    /\ hist.last = Call("import_xml", 1, 2)
    /\ hist.before = SingleImport(1, 1)
    /\ Len(db.records) = 4
    /\ Len(db.record_metadata) = 2
    /\ Len(db.workouts) = 2
    /\ Len(db.workout_events) = 2
    /\ Len(db.workout_statistics) = 2
    /\ Len(db.activity_summaries) = 2

C30_Step ==
    hist'.last.op = "rebuild_daily_stats"
    => LET stats == db'.daily_record_stats
           groups == {DailyStatsKey(db.records[i]) : i \in 1..Len(db.records)}
       IN /\ db'.records = db.records
          /\ {KeyOf(stats[i], {"record_type", "date", "unit"}) :
                 i \in 1..Len(stats)}
                = {KeyOf(k, {"record_type", "date", "unit"}) : k \in groups}
          /\ Len(stats) = Cardinality(groups)
          /\ \A i \in 1..Len(stats) :
                stats[i].count
                   = Cardinality(
                         {j \in 1..Len(db.records) :
                             KeyOf(DailyStatsKey(db.records[j]),
                                   {"record_type", "date", "unit"})
                                = KeyOf(stats[i],
                                        {"record_type", "date", "unit"})})

\* C30: after rebuild_daily_stats, daily_record_stats has exactly one row
\* for each (record type, day of the start date, unit) that occurs among
\* the rows of records, with the number of those rows as its count, and no
\* other row.
C30_StatsCoverAllRecords == [][C30_Step]_vars

\* ------------------------------------------------------------------------
\* Specification SpecFiles: import_ecg_files and import_gpx_files on one
\* directory, one file of the directory per step
\* ------------------------------------------------------------------------
\* import/ecg.rs, tests::import_ecg_missing_date: no Recorded Date header.
ECG_NO_DATE ==
    <<<<"Name", ",", "Test">>, <<"Classification", ",", "Normal">>, <<>>,
      <<"1", "0", "0">>, <<"2", "0", "0">>>>

\* A recording whose first sample follows the header without a blank line,
\* with a blank line and padded lines among the samples and a line of text
\* before further numbers.
ECG_INTERRUPTED ==
    <<<<"Recorded Date", ",", "2023-03-01", " ", "07:00:00">> \o Tz,
      <<"Device", ",", "Apple Watch">>,
      <<"1", "0">>, <<>>, <<" ", "-", "2", ".", "5", " ">>, <<"3", "0">>,
      <<"end of lead">>, <<"4", "0">>>>

\* A route file whose track points lack a latitude, have a longitude that
\* is no number, or have no time; the last one is complete.
GPX_PARTIAL ==
    <<Ev("Start", "gpx", NoAttrs), Ev("Start", "trk", NoAttrs),
      Ev("Start", "trkseg", NoAttrs),
      Ev("Start", "trkpt", [lon |-> <<"1", "0">>])>>
    \o GpxField("time", <<"2024-01-02T09:00:00Z">>)
    \o <<Ev("End", "trkpt", NoAttrs),
         Ev("Start", "trkpt", [lat |-> <<"5", "0">>, lon |-> <<"east">>])>>
    \o GpxField("time", <<"2024-01-02T09:00:05Z">>)
    \o <<Ev("End", "trkpt", NoAttrs),
         Ev("Start", "trkpt", [lat |-> <<"5", "0">>, lon |-> <<"1", "0">>])>>
    \o GpxField("ele", <<"1", "2">>)
    \o <<Ev("End", "trkpt", NoAttrs),
         Ev("Start", "trkpt", [lat |-> <<"5", "1">>, lon |-> <<"1", "1">>])>>
    \o GpxField("time", <<"2024-01-02T09:00:10+01:00">>)
    \o <<Ev("End", "trkpt", NoAttrs), Ev("End", "trkseg", NoAttrs),
         Ev("End", "trk", NoAttrs), Ev("End", "gpx", NoAttrs)>>

\* A directory entry that cannot be read.
Unreadable(name) == [name |-> name]

EcgDirFiles ==
    {File(<<"ecg_2024", ".", "csv">>, MINIMAL_ECG_CSV),
     File(<<"bad_ecg", ".", "csv">>, ECG_NO_DATE),
     File(<<"ecg_2023", ".", "csv">>, ECG_INTERRUPTED),
     File(<<"ecg_2024", ".", "txt">>, MINIMAL_ECG_CSV),
     Unreadable(<<"notes", ".", "csv">>)}

GpxDirFiles ==
    {File(RouteFile, MINIMAL_GPX),
     File(<<"route_2024-01-02", ".", "gpx">>, GPX_PARTIAL),
     File(<<"notes", ".", "txt">>, MINIMAL_GPX),
     Unreadable(<<"notes", ".", "gpx">>)}

\* What read_dir may list: up to MaxFiles of the files, in any order.
MaxFiles == 2
Listings(files) ==
    {l \in SeqsUpTo(files, MaxFiles) :
        \A i, j \in 1..Len(l) : i # j => l[i] # l[j]}

DirsOf(files) == {None} \cup {Some(l) : l \in Listings(files)}

FilesImportId == ImportId(1)

\* The call: fn holds the arguments and the locals of the driver, and log
\* the outcome of each file (the Ok and Err arms of the match).
InitFiles ==
    /\ db = EmptyDb /\ clock = 1 /\ export = <<>> /\ run = Idle /\ px = Idle
    /\ hist = <<>>
    /\ \/ \E dir \in DirsOf(EcgDirFiles) :
             fn = [pc |-> "call", kind |-> "ecg", dir |-> dir,
                   map |-> RouteMapLocals.map, entries |-> <<>>, pos |-> 1,
                   count |-> 0, log |-> <<>>]
       \/ \E dir \in DirsOf(GpxDirFiles), m \in 1..Len(ApiRouteMaps) :
             fn = [pc |-> "call", kind |-> "gpx", dir |-> dir,
                   map |-> ApiRouteMaps[m], entries |-> <<>>, pos |-> 1,
                   count |-> 0, log |-> <<>>]

\* if !dir.exists() { return Ok(0); }
FilesMissingDir ==
    /\ fn.pc = "call" /\ fn.dir = None
    /\ fn' = [fn EXCEPT !.pc = "returned"]
    /\ UNCHANGED <<db, clock, export, run, px, hist>>

\* read_dir, the extension filter and the sort.
FilesReadDir ==
    /\ fn.pc = "call" /\ fn.dir # None
    /\ fn' = [fn EXCEPT !.pc = "loop",
                        !.entries = IF fn.kind = "ecg"
                                    THEN EcgEntries(fn.dir[1])
                                    ELSE GpxEntries(fn.dir[1])]
    /\ UNCHANGED <<db, clock, export, run, px, hist>>

\* One iteration of the loop of import_ecg_files.
EcgFile ==
    /\ fn.pc = "loop" /\ fn.kind = "ecg" /\ fn.pos <= Len(fn.entries)
    /\ \E r \in {EcgFilesLoop(db, <<fn.entries[fn.pos]>>, FilesImportId,
                              fn.count)} :
          /\ db' = r.db
          /\ fn' = [fn EXCEPT !.pos = @ + 1, !.count = r.count,
                              !.log = Append(@, r.count > fn.count)]
    /\ UNCHANGED <<clock, export, run, px, hist>>

\* One iteration of the loop of import_gpx_files.
GpxFile ==
    /\ fn.pc = "loop" /\ fn.kind = "gpx" /\ fn.pos <= Len(fn.entries)
    /\ \E r \in {GpxFilesLoop(db, <<fn.entries[fn.pos]>>, FilesImportId,
                              fn.map, fn.count)} :
          /\ db' = r.db
          /\ fn' = [fn EXCEPT !.pos = @ + 1, !.count = r.count,
                              !.log = Append(@, "content" \in
                                                  DOMAIN fn.entries[fn.pos])]
    /\ UNCHANGED <<clock, export, run, px, hist>>

\* Ok(count) after the last entry.
FilesReturn ==
    /\ fn.pc = "loop" /\ fn.pos > Len(fn.entries)
    /\ fn' = [fn EXCEPT !.pc = "returned"]
    /\ UNCHANGED <<db, clock, export, run, px, hist>>

NextFiles ==
    FilesMissingDir \/ FilesReadDir \/ EcgFile \/ GpxFile \/ FilesReturn

SpecFiles == InitFiles /\ [][NextFiles]_vars

\* ------------------------------------------------------------------------
\* Properties of the directory drivers (specification SpecFiles)
\* ------------------------------------------------------------------------
\* The file the loop is about to import.
AtFile(kind) ==
    fn.pc = "loop" /\ fn.kind = kind /\ fn.pos <= Len(fn.entries)

Readable(f) == "content" \in DOMAIN f

\* Some line of the file is a Recorded Date header.
HasRecordedDate(lines) ==
    \E i \in 1..Len(lines) : StartsWithKey(Trim(lines[i]), "Recorded Date")

C21_Step ==
    (/\ AtFile("ecg")
     /\ Readable(fn.entries[fn.pos])
     /\ ~HasRecordedDate(fn.entries[fn.pos].content))
    => /\ db' = db
       /\ fn'.log = Append(fn.log, FALSE)

\* C21: import_single_ecg on a file without a Recorded Date header returns
\* Err and leaves the sink as it was: no ecg_readings row and no
\* ecg_samples row is appended for the file.
C21_NoDateNoRows == [][C21_Step]_vars

\* The file of import_ecg_missing_date has been tried and has failed.
C21_Witness ==
    /\ fn.pc = "returned" /\ fn.kind = "ecg"
    /\ \E i \in 1..Len(fn.entries) :
          /\ fn.entries[i].name = <<"bad_ecg", ".", "csv">>
          /\ ~fn.log[i]

\* The extension the driver of the call keeps.
WantedExt == IF fn.kind = "ecg" THEN "csv" ELSE "gpx"

\* The files of the listing whose name ends in the wanted extension.
Wanted ==
    {fn.dir[1][i] : i \in {k \in 1..Len(fn.dir[1]) :
        LET name == fn.dir[1][k].name IN name[Len(name)] = WantedExt}}

Successes == {i \in 1..Len(fn.log) : fn.log[i]}

C22_AtReturn ==
    (fn.pc = "returned" /\ fn.dir # None)
    => /\ Len(fn.log) = Len(fn.entries)
       /\ {fn.entries[i] : i \in 1..Len(fn.entries)} = Wanted
       /\ Len(fn.entries) = Cardinality(Wanted)
       /\ \A i, j \in 1..Len(fn.entries) :
             i < j => PathLess(fn.entries[i].name, fn.entries[j].name)
       /\ \A i \in 1..Len(fn.entries) :
             ~Readable(fn.entries[i]) => ~fn.log[i]
       /\ fn.kind = "ecg"
          => /\ fn.count = Cardinality(Successes)
             /\ Len(db.ecg_readings) = fn.count
       /\ fn.kind = "gpx" => Len(db.route_points) = fn.count

C22_Step ==
    (AtFile("ecg") \/ AtFile("gpx"))
    => /\ fn'.pc = "loop" /\ fn'.pos = fn.pos + 1
       /\ fn'.entries = fn.entries
       /\ ~Readable(fn.entries[fn.pos]) => db' = db /\ fn'.count = fn.count

\* C22: import_ecg_files and import_gpx_files go through the files of the
\* directory that have the expected extension in ascending order of name;
\* a file that fails changes neither the sink nor the count and the loop
\* goes on with the next file; the driver returns Ok with the number of
\* files imported (ECG) or of points appended (GPX).
C22_FailedFileSkipped == [][C22_Step]_vars /\ []C22_AtReturn

\* The driver has returned after a file that failed and a later file that
\* was imported, from a listing that was not in order and held a file with
\* another extension.
C22_Witness ==
    /\ fn.pc = "returned" /\ fn.dir # None
    /\ \E i, j \in 1..Len(fn.log) : i < j /\ ~fn.log[i] /\ fn.log[j]
    /\ fn.count > 0
    /\ fn.entries # fn.dir[1]

\* The keys of the header lines of an ECG file.
EcgHeaderKeys ==
    {"Name", "Date of Birth", "Recorded Date", "Classification", "Symptoms",
     "Software Version", "Device", "Sample Rate", "Lead", "Unit"}

IsHeaderLine(line) ==
    line = <<>> \/ \E k \in EcgHeaderKeys : StartsWithKey(line, k)

IsNumberLine(line) == ParseF64(line) # None

\* The least element of a non-empty set of numbers.
Least(S) == CHOOSE i \in S : \A j \in S : i <= j

\* The line at which the header scan stops (one past the end when every
\* line is a header line).
HeaderEnd(lines) ==
    Least({i \in 1..Len(lines) : ~IsHeaderLine(Trim(lines[i]))}
          \cup {Len(lines) + 1})

\* The lines that hold the samples of the file: the number lines from the
\* end of the header on, before the first line of text after the first of
\* them.
SampleLines(lines) ==
    LET numbers == {i \in HeaderEnd(lines)..Len(lines) :
                       IsNumberLine(Trim(lines[i]))}
        stop == IF numbers = {} THEN Len(lines) + 1
                ELSE Least({j \in 1..Len(lines) :
                               /\ j > Least(numbers)
                               /\ Trim(lines[j]) # <<>>
                               /\ ~IsNumberLine(Trim(lines[j]))}
                           \cup {Len(lines) + 1})
    IN {i \in numbers : i < stop}

C24_Step ==
    (/\ AtFile("ecg")
     /\ fn'.log = Append(fn.log, TRUE))
    => LET lines == fn.entries[fn.pos].content
           at == SampleLines(lines)
           stored == SubSeq(db'.ecg_samples, Len(db.ecg_samples) + 1,
                            Len(db'.ecg_samples))
       IN /\ Len(db'.ecg_readings) = Len(db.ecg_readings) + 1
          /\ SubSeq(db'.ecg_samples, 1, Len(db.ecg_samples))
                = db.ecg_samples
          /\ Len(stored) = Cardinality(at)
          /\ \A i \in at :
                LET k == Cardinality({j \in at : j < i}) + 1
                IN /\ stored[k].sample_idx = k - 1
                   /\ stored[k].voltage = ParseF64(Trim(lines[i]))[1]
                   /\ stored[k].ecg_hash
                         = db'.ecg_readings[Len(db'.ecg_readings)].ecg_hash

\* C24: the samples stored for an ECG file that was imported are the
\* number lines from the end of the header up to the first line of text
\* after a sample, in file order, under the identity of the reading and
\* with the indices 0, 1, ..., n-1; the line that ended the header scan is
\* among them when it is a number.
C24_SamplesExact == [][C24_Step]_vars

\* A file has been imported whose header scan stopped on its first sample
\* and which has a line of text and a further number after its samples.
C24_Witness ==
    /\ fn.kind = "ecg" /\ fn.pc = "loop" /\ fn.pos > 1
    /\ fn.log[fn.pos - 1]
    /\ LET lines == fn.entries[fn.pos - 1].content
       IN /\ HeaderEnd(lines) \in SampleLines(lines)
          /\ \E i \in 1..Len(lines) :
                /\ IsNumberLine(Trim(lines[i]))
                /\ i \notin SampleLines(lines)
          /\ Cardinality(SampleLines(lines)) = 3
    /\ Len(db.ecg_samples) >= 3

\* The track points of a route file: the positions of the <trkpt> start
\* tags, each with the position of its end tag.
TrkptStarts(events) ==
    {i \in 1..Len(events) :
        events[i].kind = "Start" /\ events[i].name = "trkpt"}

TrkptEnd(events, i) ==
    Least({j \in (i + 1)..Len(events) :
              events[j].kind = "End" /\ events[j].name = "trkpt"})

\* The text of the <time> child of the track point that starts at i, as a
\* set: empty when it has none.
TrkptTimes(events, i) ==
    {events[k + 1].text :
        k \in {k \in (i + 1)..(TrkptEnd(events, i) - 2) :
                  /\ events[k].kind = "Start" /\ events[k].name = "time"
                  /\ events[k + 1].kind = "Text"}}

HasNumber(e, key) ==
    key \in DOMAIN e.attrs /\ ParseF64(e.attrs[key]) # None

\* The track points with a latitude, a longitude and a time.
CompleteTrkpts(events) ==
    {i \in TrkptStarts(events) :
        /\ HasNumber(events[i], "lat") /\ HasNumber(events[i], "lon")
        /\ TrkptTimes(events, i) # {}}

C25_Step ==
    (AtFile("gpx") /\ Readable(fn.entries[fn.pos]))
    => LET events == fn.entries[fn.pos].content
           at == CompleteTrkpts(events)
           stored == SubSeq(db'.route_points, Len(db.route_points) + 1,
                            Len(db'.route_points))
       IN /\ SubSeq(db'.route_points, 1, Len(db.route_points))
                = db.route_points
          /\ Len(stored) = Cardinality(at)
          /\ fn'.count = fn.count + Cardinality(at)
          /\ \A i \in at :
                LET k == Cardinality({j \in at : j < i}) + 1
                IN /\ stored[k].latitude = ParseF64(events[i].attrs.lat)[1]
                   /\ stored[k].longitude = ParseF64(events[i].attrs.lon)[1]
                   /\ \E t \in TrkptTimes(events, i) :
                         stored[k].timestamp
                            = <<clean_timestamp(Join(t))>>

\* C25: import_single_gpx appends one row for each track point that has a
\* latitude and a longitude that parse and a time, in file order, and no
\* row for any other track point; the total it returns counts the rows.
C25_RowIffComplete == [][C25_Step]_vars

\* A file has been imported that has track points without a latitude, with
\* a longitude that does not parse and without a time, and one complete
\* track point.
C25_Witness ==
    /\ fn.kind = "gpx" /\ fn.pc = "loop" /\ fn.pos > 1
    /\ Readable(fn.entries[fn.pos - 1])
    /\ LET events == fn.entries[fn.pos - 1].content
       IN /\ Cardinality(CompleteTrkpts(events)) = 1
          /\ \E i \in TrkptStarts(events) : "lat" \notin DOMAIN events[i].attrs
          /\ \E i \in TrkptStarts(events) :
                "lon" \in DOMAIN events[i].attrs
                /\ ~HasNumber(events[i], "lon")
          /\ \E i \in TrkptStarts(events) :
                /\ HasNumber(events[i], "lat") /\ HasNumber(events[i], "lon")
                /\ TrkptTimes(events, i) = {}
    /\ fn.count = Len(db.route_points)
    /\ Len(db.route_points) >= 1

\* The texts of the children called tag of the track point that starts at
\* i, as a set: empty when it has none.
TrkptTexts(events, i, tag) ==
    {events[k + 1].text :
        k \in {k \in (i + 1)..(TrkptEnd(events, i) - 2) :
                  /\ events[k].kind = "Start" /\ events[k].name = tag
                  /\ events[k + 1].kind = "Text"}}

\* The child element each optional column of route_points is read from.
TrkptChildOf ==
    [elevation |-> "ele", speed |-> "speed", course |-> "course",
     h_accuracy |-> "hAcc", v_accuracy |-> "vAcc"]

C38_Step ==
    (AtFile("gpx") /\ Readable(fn.entries[fn.pos]))
    => LET events == fn.entries[fn.pos].content
           at == CompleteTrkpts(events)
           stored == SubSeq(db'.route_points, Len(db.route_points) + 1,
                            Len(db'.route_points))
       IN /\ Len(stored) = Cardinality(at)
          /\ \A i \in at :
                LET k == Cardinality({j \in at : j < i}) + 1
                IN /\ \A c \in DOMAIN TrkptChildOf :
                        LET texts == TrkptTexts(events, i, TrkptChildOf[c])
                        IN IF texts = {} THEN stored[k][c] = None
                           ELSE \E t \in texts : stored[k][c] = ParseF64(t)
                   /\ \E t \in TrkptTexts(events, i, "time") :
                         stored[k].timestamp = <<clean_timestamp(Join(t))>>

\* C38: in every row import_single_gpx stores, the elevation, speed,
\* course and accuracies are the values of the children of the track point
\* the row stands for, and None where it has no such child; the time is
\* that of its own <time> child.  Nothing is carried over from an earlier
\* track point, stored or dropped.
C38_ValuesOfOwnTrkpt == [][C38_Step]_vars

\* A file has been imported in which a track point with an <ele> child was
\* dropped and the next track point, which has none, was stored: its row
\* has no elevation.
C38_Witness ==
    /\ fn.kind = "gpx" /\ fn.pc = "loop" /\ fn.pos > 1
    /\ Readable(fn.entries[fn.pos - 1])
    /\ LET events == fn.entries[fn.pos - 1].content
       IN \E i \in TrkptStarts(events) \ CompleteTrkpts(events),
             j \in CompleteTrkpts(events) :
             /\ i < j
             /\ TrkptTexts(events, i, "ele") # {}
             /\ TrkptTexts(events, j, "ele") = {}
    /\ db.route_points # <<>>
    /\ db.route_points[Len(db.route_points)].elevation = None

\* The key import_gpx_files looks the file up with.
RouteKey(f) == <<"/workout-routes/">> \o f.name

C26_Step ==
    (/\ AtFile("gpx") /\ Readable(fn.entries[fn.pos])
     /\ RouteKey(fn.entries[fn.pos]) \notin DOMAIN fn.map)
    => LET events == fn.entries[fn.pos].content
           at == CompleteTrkpts(events)
       IN /\ fn'.log = Append(fn.log, TRUE)
          /\ Len(db'.route_points) = Len(db.route_points) + Cardinality(at)
          /\ \A i \in at :
                LET k == Len(db.route_points)
                            + Cardinality({j \in at : j < i}) + 1
                    row == db'.route_points[k]
                IN /\ row.workout_hash = None
                   /\ \E t \in TrkptTimes(events, i) :
                         row.point_hash
                            = compute_hash(
                                  <<<<>>, t,
                                    F64ToString(
                                        ParseF64(events[i].attrs.lat)[1]),
                                    F64ToString(
                                        ParseF64(events[i].attrs.lon)[1])>>)

\* A file the map has an entry for is stored under that workout.
C26_StepResolved ==
    (/\ AtFile("gpx") /\ Readable(fn.entries[fn.pos])
     /\ RouteKey(fn.entries[fn.pos]) \in DOMAIN fn.map)
    => \A k \in (Len(db.route_points) + 1)..Len(db'.route_points) :
          db'.route_points[k].workout_hash
             = Some(fn.map[RouteKey(fn.entries[fn.pos])])

\* C26: the complete track points of a route file the route map has no
\* entry for are all stored, with no workout reference and with an
\* identity computed from the empty string, the time and the coordinates;
\* the import of the file succeeds.
C26_UnresolvedStored == [][C26_Step /\ C26_StepResolved]_vars

\* A file without an entry in a route map that has entries has been
\* imported and its points are stored without a workout reference.
C26_Witness ==
    /\ fn.kind = "gpx" /\ fn.pc = "loop" /\ fn.pos > 1
    /\ Readable(fn.entries[fn.pos - 1])
    /\ RouteKey(fn.entries[fn.pos - 1]) \notin DOMAIN fn.map
    /\ DOMAIN fn.map # {}
    /\ CompleteTrkpts(fn.entries[fn.pos - 1].content) # {}
    /\ db.route_points # <<>>
    /\ db.route_points[Len(db.route_points)].workout_hash = None

\* ------------------------------------------------------------------------
\* Specification SpecParsers: the three parsers, each on its own input:
\* import_xml one event per step, the directory drivers one file per step
\* ------------------------------------------------------------------------
InitParsers == InitXml \/ InitFiles

NextParsers == NextXml \/ NextFiles

SpecParsers == InitParsers /\ [][NextParsers]_vars

\* a can be obtained from b by leaving out members of b.
RECURSIVE IsSubsequence(_, _)
IsSubsequence(a, b) ==
    IF a = <<>> THEN TRUE
    ELSE IF b = <<>> THEN FALSE
    ELSE IF Head(a) = Head(b) THEN IsSubsequence(Tail(a), Tail(b))
    ELSE IsSubsequence(a, Tail(b))

\* The identities import_xml computes for the Record events of a document,
\* in document order.
RecordHashesOf(doc) ==
    LET at == {k \in 1..Len(doc) :
                  doc[k].name = "Record" /\ doc[k].kind \in {"Start", "Empty"}}
    IN [n \in 1..Cardinality(at) |-> XmlRecordHash(doc[Nth(at, n)])]

\* A step of the loop of import_xml: the rows in the sink and in the batch
\* stay in their order, and a table that grows receives its whole batch,
\* behind the rows it held.
C32_XmlStep ==
    (px.pc = "loop" /\ px'.pc # "failed")
    => \A t \in DOMAIN BatchOf :
          /\ IsPrefix(db[t], db'[t])
          /\ IsPrefix(Committed(px, db, t, BatchOf[t]),
                      Committed(px', db', t, BatchOf[t]))
          /\ db'[t] # db[t]
             => /\ px'[BatchOf[t]] = <<>>
                /\ IsPrefix(db[t] \o px[BatchOf[t]], db'[t])
                /\ Len(db'[t]) <= Len(db[t]) + Len(px[BatchOf[t]])
                                  + (px'.stats[StatOf[t]]
                                     - px.stats[StatOf[t]])

\* The records rows in the sink and in the batch are in the order of the
\* Record elements of the document.
C32_XmlOrder ==
    px.pc \in {"loop", "done"}
    => IsSubsequence(
           [i \in 1..Len(Committed(px, db, "records", "record_batch")) |->
               Committed(px, db, "records", "record_batch")[i].record_hash],
           RecordHashesOf(px.doc))

\* One file of the ECG directory: the samples it adds have ascending
\* indices and the voltages of the file's number lines in file order.
C32_EcgStep ==
    AtFile("ecg")
    => LET stored == SubSeq(db'.ecg_samples, Len(db.ecg_samples) + 1,
                            Len(db'.ecg_samples))
           lines == IF Readable(fn.entries[fn.pos])
                    THEN fn.entries[fn.pos].content ELSE <<>>
           numbers == {i \in 1..Len(lines) : IsNumberLine(Trim(lines[i]))}
       IN /\ IsPrefix(db.ecg_samples, db'.ecg_samples)
          /\ \A k \in 1..Len(stored) : stored[k].sample_idx = k - 1
          /\ IsSubsequence(
                 [k \in 1..Len(stored) |-> stored[k].voltage],
                 [n \in 1..Cardinality(numbers) |->
                     ParseF64(Trim(lines[Nth(numbers, n)]))[1]])

\* One file of the routes directory: the points it adds are in the order
\* of the file's track points.
C32_GpxStep ==
    AtFile("gpx")
    => LET stored == SubSeq(db'.route_points, Len(db.route_points) + 1,
                            Len(db'.route_points))
           events == IF Readable(fn.entries[fn.pos])
                     THEN fn.entries[fn.pos].content ELSE <<>>
           at == CompleteTrkpts(events)
       IN /\ IsPrefix(db.route_points, db'.route_points)
          /\ IsSubsequence(
                 [k \in 1..Len(stored) |->
                     <<stored[k].latitude, stored[k].longitude>>],
                 [n \in 1..Cardinality(at) |->
                     <<ParseF64(events[Nth(at, n)].attrs.lat)[1],
                       ParseF64(events[Nth(at, n)].attrs.lon)[1]>>])

\* C32: rows reach each table in the order the parser produced them: a
\* flush of import_xml, at the threshold or at the end, appends the batch
\* as it is, without reordering, dropping or repeating a row, so the
\* records rows follow the order of the document; the samples of an ECG
\* file are appended with ascending index and the points of a route file
\* in the order of its track points.
C32_RowsInSourceOrder ==
    /\ [][C32_XmlStep /\ C32_EcgStep /\ C32_GpxStep]_vars
    /\ []C32_XmlOrder

\* A threshold flush inside the loop of import_xml has written two
\* different records, in the order of the document.
C32_Witness ==
    /\ px.pc = "loop"
    /\ Len(db.records) = 2
    /\ db.records[1].record_hash # db.records[2].record_hash
    /\ px.record_batch = <<>>

\* ------------------------------------------------------------------------
\* Specification SpecEcgPair: import_single_ecg on two files that differ
\* only in the values of their Name and Date of Birth lines
\* ------------------------------------------------------------------------
\* What may follow "Name," and "Date of Birth,": text, a number, the text
\* of another header line, nothing.
PrivateValues ==
    {<<"Test User">>, <<"7", "2">>, <<"Recorded Date", ",", "2001-01-01">>,
     <<>>}

\* The files without their first two lines: a full header, a header that
\* the first sample ends, a header without a recorded date.
EcgBodies ==
    {SubSeq(MINIMAL_ECG_CSV, 3, Len(MINIMAL_ECG_CSV)), ECG_INTERRUPTED,
     Tail(ECG_NO_DATE)}

EcgFileWith(name, birth, body) ==
    <<<<"Name", ",">> \o name, <<"Date of Birth", ",">> \o birth>> \o body

InitEcgPair ==
    /\ db = EmptyDb /\ clock = 1 /\ export = <<>> /\ run = Idle /\ px = Idle
    /\ hist = <<>>
    /\ \E body \in EcgBodies, na \in PrivateValues, nb \in PrivateValues,
          ba \in PrivateValues, bb \in PrivateValues :
          fn = [pc |-> "args", a |-> EcgFileWith(na, ba, body),
                b |-> EcgFileWith(nb, bb, body)]

\* import_single_ecg on each of the two files, each into an empty sink.
EcgImportBoth ==
    /\ fn.pc = "args"
    /\ fn' = [pc |-> "imported", a |-> fn.a, b |-> fn.b,
              ra |-> import_single_ecg(EmptyDb, fn.a, ImportId(clock)),
              rb |-> import_single_ecg(EmptyDb, fn.b, ImportId(clock))]
    /\ UNCHANGED <<db, clock, export, run, px, hist>>

NextEcgPair == EcgImportBoth

SpecEcgPair == InitEcgPair /\ [][NextEcgPair]_vars

\* C33: two ECG files that differ only in the values of their Name and
\* Date of Birth lines have the same outcome: both fail or both succeed,
\* with the same ecg_readings row, the identity included, and the same
\* ecg_samples rows.
C33_PrivateValuesIgnored ==
    fn.pc = "imported"
    => /\ fn.ra.ok = fn.rb.ok
       /\ fn.ra.db.ecg_readings = fn.rb.db.ecg_readings
       /\ fn.ra.db.ecg_samples = fn.rb.db.ecg_samples
       /\ fn.ra.db = fn.rb.db

\* Two files with different names and birth dates, one of them with a
\* number as the name, have been imported with a reading and samples.
C33_Witness ==
    /\ fn.pc = "imported"
    /\ fn.a[1] # fn.b[1] /\ fn.a[2] # fn.b[2]
    /\ fn.a[1] = <<"Name", ",", "7", "2">>
    /\ fn.ra.ok /\ fn.rb.ok
    /\ Len(fn.ra.db.ecg_readings) = 1
    /\ Len(fn.ra.db.ecg_samples) >= 3
    /\ fn.ra.db = fn.rb.db

\* ---------------------------------------------------------------------------
\* Properties of run_import, continued: the identities of the sink.
\* ---------------------------------------------------------------------------

\* C15: in records, record_metadata, workouts, ecg_readings, ecg_samples
\* and route_points, any two rows of the sink with the same identity are
\* equal in every column other than import_id.
C15_DuplicatesIdentical ==
    \A t \in {"records", "record_metadata", "workouts", "ecg_readings",
              "ecg_samples", "route_points"} :
        \A i, j \in 1..Len(db[t]) :
            KeyOf(db[t][i], IdentityOf[t]) = KeyOf(db[t][j], IdentityOf[t])
            => WithoutImportId(db[t][i]) = WithoutImportId(db[t][j])

\* The phases of run_import in the order of its body, and the tables each
\* of them writes.
PhaseOrder ==
    <<"import_xml", "build_workout_route_map", "import_ecg_files",
      "import_gpx_files", "deduplicate_tables", "rebuild_daily_stats",
      "insert_imports", "done">>

PhaseWrites ==
    [import_xml              |-> {"records", "record_metadata", "workouts",
                                  "workout_events", "workout_statistics",
                                  "activity_summaries"},
     build_workout_route_map |-> {},
     import_ecg_files        |-> {"ecg_readings", "ecg_samples"},
     import_gpx_files        |-> {"route_points"},
     deduplicate_tables      |-> {"records", "record_metadata", "workouts",
                                  "activity_summaries", "ecg_readings",
                                  "ecg_samples", "route_points", "imports"},
     rebuild_daily_stats     |-> {"daily_record_stats"},
     insert_imports          |-> {"imports"}]

Changed == {t \in Tables : db'[t] # db[t]}

C16_Step ==
    /\ \A k \in 1..7 :
          run.pc = PhaseOrder[k]
          => /\ run'.pc \in {PhaseOrder[k], PhaseOrder[k + 1], "failed"}
             /\ Changed \subseteq PhaseWrites[PhaseOrder[k]]
             /\ run'.pc = PhaseOrder[k] => Changed = {}
    /\ run.pc \in {"idle", "done", "failed"} => Changed = {}
    /\ run'.pc = "failed" => db'.imports = db.imports
    /\ Len(db'.imports) > Len(db.imports)
       => run.pc = "insert_imports" /\ run'.pc = "done"

XmlMissing == OpenXml(Exports[run.export_dir]) = None

C20_Step ==
    /\ (run.pc = "import_xml" /\ XmlMissing /\ run' # run)
       => /\ db' = db
          /\ run'.pc = "failed"
          /\ hist' = Append(hist, [export |-> run.export_dir, ok |-> FALSE])
    /\ (run.pc = "failed" /\ XmlMissing /\ run'.pc = "failed") => db' = db

\* C20: when export.xml cannot be opened, import_xml returns Err with the
\* sink as it was, and run_import returns the error at once: no ECG or GPX
\* row is appended, no table is deduplicated or rebuilt, and no imports row
\* is written.
C20_MissingXmlFailsRun == [][C20_Step]_vars

\* A run on a directory without export.xml has failed, on a database an
\* earlier run had filled and logged.
C20_Witness ==
    /\ run.pc = "failed"
    /\ run.export_dir = "no_xml"
    /\ Len(db.imports) = 1
    /\ db.ecg_readings # <<>>

\* The directory the driver of the current phase is given does not exist.
DirMissing ==
    \/ run.pc = "import_ecg_files" /\ Exports[run.export_dir].ecg = None
    \/ run.pc = "import_gpx_files" /\ Exports[run.export_dir].routes = None

C23_Step ==
    (DirMissing /\ run' # run)
    => /\ db' = db
       /\ run.pc = "import_ecg_files"
          => run'.pc = "import_gpx_files" /\ run'.ecg_count = 0
       /\ run.pc = "import_gpx_files"
          => run'.pc = "deduplicate_tables" /\ run'.route_points = 0

\* A run that got past both drivers without either directory and then
\* ended has either written its imports row or failed in a later phase.
C23_Ends ==
    (/\ run.pc = "done"
     /\ Exports[run.export_dir].ecg = None
     /\ Exports[run.export_dir].routes = None)
    => /\ hist[Len(hist)].ok
       /\ \E i \in 1..Len(db.imports) :
             /\ db.imports[i].import_id = run.import_id
             /\ db.imports[i].export_dir = run.export_dir

\* C23: a driver whose directory does not exist returns Ok(0) without
\* touching the sink, and run_import goes on to the next phase; the run can
\* then reach its end with the imports row written.
C23_MissingDirIsOk == [][C23_Step]_vars /\ []C23_Ends

\* A run on an export with neither directory has written its imports row.
C23_Witness ==
    /\ run.pc = "done"
    /\ Exports[run.export_dir].ecg = None
    /\ Exports[run.export_dir].routes = None
    /\ run.ecg_count = 0 /\ run.route_points = 0
    /\ \E i \in 1..Len(db.imports) : db.imports[i].import_id = run.import_id

\* The tables whose earlier rows a step does not keep, in place and in
\* order, at the front of the table.
NotExtended == {t \in Tables : ~IsPrefix(db[t], db'[t])}

C31_Step ==
    /\ run.pc \notin {"deduplicate_tables", "rebuild_daily_stats"}
       => NotExtended = {}
    /\ NotExtended # {}
       => /\ run.pc \in {"deduplicate_tables", "rebuild_daily_stats"}
          /\ NotExtended \subseteq PhaseWrites[run.pc]

\* C31: ensure_schema, import_xml, build_workout_route_map,
\* import_ecg_files, import_gpx_files and the imports INSERT leave every
\* row a table held where it was and only add rows after them; a table
\* loses or changes rows only in deduplicate_tables and
\* rebuild_daily_stats.
C31_AppendOnlyBeforeConvergence == [][C31_Step]_vars

\* The parse phases of a second run have added rows behind those of the
\* first run, which are still there: records, ECG samples and route points
\* hold the same identity twice.
C31_Witness ==
    /\ run.pc = "deduplicate_tables"
    /\ Len(hist) >= 1
    /\ \E i, j \in 1..Len(db.records) :
          i < j /\ db.records[i].record_hash = db.records[j].record_hash
    /\ \E i, j \in 1..Len(db.ecg_samples) :
          /\ i < j
          /\ db.ecg_samples[i].ecg_hash = db.ecg_samples[j].ecg_hash
          /\ db.ecg_samples[i].sample_idx = db.ecg_samples[j].sample_idx
    /\ \E i, j \in 1..Len(db.route_points) :
          i < j /\ db.route_points[i].point_hash = db.route_points[j].point_hash

\* ------------------------------------------------------------------------
\* Specification SpecServer: server/mod.rs, the run_custom_query tool of a
\* HealthServer, one call per step
\* ------------------------------------------------------------------------
\* str::to_uppercase on the words of a query.
ToUpper(word) ==
    CASE word \in {"select", "Select"} -> "SELECT"
      [] word \in {"with", "With"} -> "WITH"
      [] word = "delete" -> "DELETE"
      [] OTHER -> word

\* The queries a client sends: a statement over one table, in front of it
\* nothing, a blank, or a WITH clause.
Cte == <<" ", "x AS (SELECT 1)", " ">>

QueryVerbs == {"SELECT", "select", "INSERT", "DELETE", "delete", "DROP"}
QueryTables == {"records", "imports"}

Statement(verb, table) ==
    CASE ToUpper(verb) = "SELECT" -> <<verb, " ", "*", " ", "FROM", " ", table>>
      [] ToUpper(verb) = "INSERT" ->
             <<verb, " ", "INTO", " ", table, " ", "SELECT", " ", "*", " ",
               "FROM", " ", table>>
      [] ToUpper(verb) = "DELETE" -> <<verb, " ", "FROM", " ", table>>
      [] OTHER -> <<verb, " ", "TABLE", " ", table>>

Queries ==
    {front \o Statement(verb, table) :
       front \in {<<>>, <<" ">>, <<"WITH">> \o Cte, <<" ", "with">> \o Cte},
       verb \in QueryVerbs, table \in QueryTables}

\* The statement the sink's parser finds in a query text: the verb after
\* an optional WITH clause, and the table it names (the last word).
VerbOf(sql) ==
    IF ToUpper(sql[1]) = "WITH" THEN ToUpper(sql[1 + Len(Cte) + 1])
    ELSE ToUpper(sql[1])

TableOf(sql) == sql[Len(sql)]

\* conn.prepare(sql) and stmt.query_map(..) in query_to_json: the sink runs
\* the statement.  A connection opened with AccessMode::ReadOnly returns an
\* error for a statement that writes.
query_to_json(sink, access, sql) ==
    IF VerbOf(sql) = "SELECT" THEN [ok |-> TRUE, db |-> sink]
    ELSE IF access = "ReadOnly" THEN [ok |-> FALSE, db |-> sink]
    ELSE IF VerbOf(sql) = "INSERT"
    THEN [ok |-> TRUE,
          db |-> [sink EXCEPT ![TableOf(sql)] = @ \o @]]
    ELSE [ok |-> TRUE, db |-> [sink EXCEPT ![TableOf(sql)] = <<>>]]

\* run_custom_query: what the tool answers and the sink it leaves.
run_custom_query(sink, access, query) ==
    LET trimmed == Trim(query)
        upper == IF trimmed = <<>> THEN "" ELSE ToUpper(trimmed[1])
    IN IF upper # "SELECT" /\ upper # "WITH"
       THEN [answer |-> "Error: Query must start with SELECT or WITH",
             db |-> sink]
       ELSE CHOOSE r \in
              {[answer |-> IF q.ok THEN "rows" ELSE "Error", db |-> q.db] :
                 q \in {query_to_json(sink, access, trimmed)}} : TRUE

\* The calls one server gets.
MaxQueries == 2

\* HealthServer::new opens the database file read-only; new_in_memory takes
\* the connection it is given.  The database holds one import.
InitServer ==
    /\ db = import_xml(EmptyDb, MINIMAL_XML, ImportId(1), 0).db
    /\ clock = 1 /\ export = <<>> /\ run = Idle /\ px = Idle
    /\ hist = <<>>
    /\ \E access \in {"ReadOnly", "ReadWrite"} :
          fn = [pc |-> "serving", access |-> access, n |-> 0,
                query |-> <<>>, answer |-> ""]

\* A client calls the tool.
RunCustomQuery ==
    /\ fn.pc = "serving" /\ fn.n < MaxQueries
    /\ \E query \in Queries :
          \E r \in {run_custom_query(db, fn.access, query)} :
             /\ db' = r.db
             /\ fn' = [fn EXCEPT !.n = @ + 1, !.query = query,
                                 !.answer = r.answer]
    /\ UNCHANGED <<clock, export, run, px, hist>>

NextServer == RunCustomQuery

SpecServer == InitServer /\ [][NextServer]_vars

\* The first word of the trimmed query, in upper case.
FirstWord_Upper(query) ==
    IF Trim(query) = <<>> THEN "" ELSE ToUpper(Trim(query)[1])

C34_Step ==
    fn'.n = fn.n + 1
    => /\ FirstWord_Upper(fn'.query) \notin {"SELECT", "WITH"}
          => /\ fn'.answer = "Error: Query must start with SELECT or WITH"
             /\ db' = db
       /\ db' = db

\* C34: run_custom_query rejects a query whose trimmed text does not begin
\* with SELECT or WITH, in any case of letters, without running it, and no
\* call of the tool changes a table.
C34_ReadOnlyTool == [][C34_Step]_vars

\* The run_import calls that have returned Ok so far.
CompletedRuns == {i \in 1..Len(hist) : hist[i].ok}

\* C37: whenever no run_import call is in progress, the imports table has
\* one row for each call that has returned Ok, and no two of its rows carry
\* the same import_id.
C37_OneRowPerRun ==
    run.pc \in {"idle", "done", "failed"}
    => /\ Len(db.imports) = Cardinality(CompletedRuns)
       /\ \A i, j \in 1..Len(db.imports) :
             db.imports[i].import_id = db.imports[j].import_id => i = j

\* ------------------------------------------------------------------------
\* Specification SpecLoops: the three event loops, one event per step
\* ------------------------------------------------------------------------
\* The reader is taken as the sequence of results read_event_into returns
\* before Eof, a reader error being one of them: each call consumes one.
ErrEv == Ev("Err", "", NoAttrs)

\* A route file cut off after n events, and the whole file with a reader
\* error after its first n events.
GpxInputs ==
    UNION {{SubSeq(f, 1, n),
            SubSeq(f, 1, n) \o <<ErrEv>> \o SubSeq(f, n + 1, Len(f))} :
             <<f, n>> \in {<<MINIMAL_GPX, n>> : n \in 0..Len(MINIMAL_GPX)}
                          \cup {<<GPX_PARTIAL, n>> :
                                  n \in 0..Len(GPX_PARTIAL)}}

\* In this specification run is the thread that executes the loop: iter is
\* the parity of the number of iterations it has begun.
LoopThread == [pc |-> "loop", iter |-> 0]

InitLoops ==
    /\ db = EmptyDb /\ clock = 1 /\ export = <<>> /\ hist = <<>>
    /\ run = LoopThread
    /\ \/ /\ fn = Idle
          /\ \E doc \in XmlDocs, f \in 0..MaxFail :
                px = XmlLocals(doc, ImportId(clock), f)
       \/ /\ px = Idle
          /\ \/ \E doc \in XmlDocs :
                   fn = [pc |-> "loop", loop |-> "build_workout_route_map",
                         events |-> doc, pos |-> 1, m |-> RouteMapLocals]
             \/ \E events \in GpxInputs :
                   fn = [pc |-> "loop", loop |-> "import_single_gpx",
                         events |-> events, pos |-> 1, g |-> GpxLocals]

\* A loop is running.
InLoop == px.pc = "loop" \/ fn.pc = "loop"

\* The thread begins an iteration: loop { match xml.read_event_into(..) }.
Iterate == InLoop /\ run' = [run EXCEPT !.iter = 1 - @]

AtLoopEvent(loop) ==
    /\ fn.pc = "loop" /\ fn.loop = loop
    /\ fn.pos <= Len(fn.events)

AtLoopEof(loop) ==
    /\ fn.pc = "loop" /\ fn.loop = loop
    /\ fn.pos > Len(fn.events)

\* import_xml: read_event_into returns an event other than Eof.
LoopXmlEvent ==
    /\ px.pc = "loop" /\ px.pos <= Len(px.doc)
    /\ Iterate
    /\ \E st \in {XmlLoopBody([p |-> px, db |-> db])} :
          px' = st.p /\ db' = st.db
    /\ UNCHANGED <<clock, export, fn, hist>>

\* import_xml: Ok(Event::Eof) => break, the final flushes and Ok(stats).
LoopXmlEof ==
    /\ px.pc = "loop" /\ px.pos > Len(px.doc)
    /\ Iterate
    /\ \E st \in {XmlAtEof([p |-> px, db |-> db])} :
          px' = st.p /\ db' = st.db
    /\ UNCHANGED <<clock, export, fn, hist>>

\* build_workout_route_map: read_event_into returns an event other than
\* Eof.
RouteMapEvent ==
    /\ AtLoopEvent("build_workout_route_map")
    /\ Iterate
    /\ fn' = [fn EXCEPT !.m = RouteMapLoopBody(@, fn.events[fn.pos]),
                        !.pos = @ + 1]
    /\ UNCHANGED <<db, clock, export, px, hist>>

\* Ok(Event::Eof) => break, then Ok(map).
RouteMapEof ==
    /\ AtLoopEof("build_workout_route_map")
    /\ Iterate
    /\ fn' = [fn EXCEPT !.pc = "returned"]
    /\ UNCHANGED <<db, clock, export, px, hist>>

\* import_single_gpx: read_event_into returns an event other than Eof.
GpxEvent ==
    /\ AtLoopEvent("import_single_gpx")
    /\ Iterate
    /\ fn' = [fn EXCEPT !.g = GpxLoopBody(@, fn.events[fn.pos], None,
                                          FilesImportId),
                        !.pos = @ + 1]
    /\ UNCHANGED <<db, clock, export, px, hist>>

\* Ok(Event::Eof) => break, then appender.flush()? and Ok(count).
GpxEof ==
    /\ AtLoopEof("import_single_gpx")
    /\ Iterate
    /\ db' = [db EXCEPT !.route_points = @ \o fn.g.rows]
    /\ fn' = [fn EXCEPT !.pc = "returned"]
    /\ UNCHANGED <<clock, export, px, hist>>

NextLoops ==
    \/ LoopXmlEvent \/ LoopXmlEof \/ RouteMapEvent \/ RouteMapEof
    \/ GpxEvent \/ GpxEof

\* Each loop runs in the one thread of its caller, which is not suspended
\* for ever: while a loop is running the thread begins another iteration.
SpecLoops == InitLoops /\ [][NextLoops]_vars /\ WF_run(Iterate)

C39_ErrStep ==
    /\ (AtEvent /\ px.doc[px.pos].kind = "Err")
       => px' = [px EXCEPT !.pos = @ + 1] /\ db' = db
    /\ (fn.pc = "loop" /\ fn.pos <= Len(fn.events)
          /\ fn.events[fn.pos].kind = "Err")
       => fn' = [fn EXCEPT !.pos = @ + 1] /\ db' = db

StampDates == {"2020-06-20", "2024-01-01"}
StampTimes == {"16:56:44", "00:00:00"}

\* What follows the seconds in a GPX <time>.
GpxSuffixes == {"", "Z", "+00:00", "-05:00", "+05:30"}

\* What follows the seconds in a date attribute of export.xml, in tokens.
XmlSuffixes ==
    {<<>>, <<" ", "+", "0000">>, <<" ", "-", "0500">>, <<"Z">>,
     <<" ", "+", "01:00">>}

\* How often a function is applied to its own result.
MaxApply == 2

InitDates ==
    /\ db = <<>> /\ clock = 0 /\ export = <<>> /\ run = Idle /\ px = Idle
    /\ hist = <<>>
    /\ \E date \in StampDates, time \in StampTimes :
          \/ \E sep \in {"T", " "}, suffix \in GpxSuffixes, pad \in {"", " "} :
                fn = [pc |-> "clean_timestamp", date |-> date, time |-> time,
                      sep |-> sep, suffix |-> suffix,
                      arg |-> pad \o date \o sep \o time \o suffix \o pad,
                      out |-> pad \o date \o sep \o time \o suffix \o pad,
                      n |-> 0]
          \/ \E suffix \in XmlSuffixes :
                fn = [pc |-> "clean_date", date |-> date, time |-> time,
                      sep |-> " ", suffix |-> suffix,
                      arg |-> <<date, " ", time>> \o suffix,
                      out |-> <<date, " ", time>> \o suffix,
                      n |-> 0]

\* clean_timestamp(&out)
ApplyCleanTimestamp ==
    /\ fn.pc = "clean_timestamp" /\ fn.n < MaxApply
    /\ fn' = [fn EXCEPT !.out = clean_timestamp(fn.out), !.n = @ + 1]
    /\ UNCHANGED <<db, clock, export, run, px, hist>>

\* clean_date(&out)
ApplyCleanDate ==
    /\ fn.pc = "clean_date" /\ fn.n < MaxApply
    /\ fn' = [fn EXCEPT !.out = clean_date(fn.out), !.n = @ + 1]
    /\ UNCHANGED <<db, clock, export, run, px, hist>>

NextDates == ApplyCleanTimestamp \/ ApplyCleanDate

SpecDates == InitDates /\ [][NextDates]_vars

\* C27: clean_timestamp gives "YYYY-MM-DD HH:MM:SS" for a timestamp with a
\* T or a space between date and time and with no suffix, a Z or an offset
\* +HH:MM or -HH:MM after the seconds, and gives the same again when it is
\* applied to that result; a timestamp already in that form is returned
\* as it is.
C27_Canonical ==
    (fn.pc = "clean_timestamp" /\ fn.n >= 1)
    => fn.out = fn.date \o " " \o fn.time

\* clean_timestamp has been applied twice to a timestamp with a T and a
\* negative offset, and once to a timestamp already in canonical form.
C27_Witness ==
    /\ fn.pc = "clean_timestamp"
    /\ \/ fn.n = 2 /\ fn.sep = "T" /\ fn.suffix = "-05:00"
       \/ fn.n = 1 /\ fn.arg = fn.date \o " " \o fn.time
    /\ fn.out = fn.date \o " " \o fn.time

\* The suffixes the canonical form of a date attribute is defined by.
TimezoneSuffixes == {<<" ", "+", "0000">>, <<" ", "-", "0500">>, <<"Z">>}

\* C28: clean_date returns its input without the trailing timezone suffix
\* (a space, + or -, four digits; or Z), returns an input without such a
\* suffix unchanged, never shortens the date and time, and returns its own
\* result unchanged.
C28_OnlySuffixRemoved ==
    (fn.pc = "clean_date" /\ fn.n >= 1)
    => fn.out = IF fn.suffix \in TimezoneSuffixes
                THEN <<fn.date, " ", fn.time>>
                ELSE fn.arg

\* ------------------------------------------------------------------------
\* Specification SpecHash: compute_hash applied to two field lists
\* ------------------------------------------------------------------------
HashAlphabet == {"a", "|"}

HashStrings == SeqsUpTo(HashAlphabet, MaxStrLen)
HashFieldLists == SeqsUpTo(HashStrings, MaxFields)

InitHash ==
    /\ db = <<>> /\ clock = 0 /\ export = <<>> /\ run = Idle /\ px = Idle
    /\ hist = <<>>
    /\ \E a \in HashFieldLists, b \in HashFieldLists :
          fn = [pc |-> "args", a |-> a, b |-> b]

HashBoth ==
    /\ fn.pc = "args"
    /\ fn' = [pc |-> "hashed", a |-> fn.a, b |-> fn.b,
              ha |-> compute_hash(fn.a), hb |-> compute_hash(fn.b)]
    /\ UNCHANGED <<db, clock, export, run, px, hist>>

NextHash == HashBoth

SpecHash == InitHash /\ [][NextHash]_vars

\* C7: two field lists get the same fingerprint if and only if they are the
\* same list (same length, same fields in the same order), for fields over
\* any alphabet, the separator character included.
C7_HashInjective ==
    fn.pc = "hashed" => ((fn.ha = fn.hb) <=> (fn.a = fn.b))

\* A field list made of empty strings only (the list without fields is
\* one).
AllEmpty(parts) == \A i \in 1..Len(parts) : parts[i] = <<>>

====
